---- MODULE Spec2Model ----
(***************************************************************************)
(* State-machine model of the sudoers policy plugin core                   *)
(* (plugins/sudoers/sudoers.c): sudoers_init, sudoers_check_common and the *)
(* three request entry points sudoers_check_cmnd, sudoers_validate_user    *)
(* and sudoers_list, with set_cmnd / set_cmnd_path, open_file and the      *)
(* RLIMIT_NPROC helpers.  Collaborators whose code lives elsewhere (the    *)
(* privilege gate, the defaults engine, the rule lookup, the               *)
(* authenticator, ...) are modelled by their interface: every result the   *)
(* caller distinguishes is a nondeterministic outcome.                     *)
(*                                                                         *)
(* Return values are C ints: 1 = true (allow), 0 = false (deny),           *)
(* -1 = error, -2 = usage error.                                           *)
(***************************************************************************)
EXTENDS Integers, Sequences, FiniteSets, TLC

VARIABLES
    world,              \* front-end settings and sudoers contents of this run
    pc,                 \* position of the plugin: "idle" or a label
    fn,                 \* entry point in progress
    sudo_mode,          \* set of MODE_* flags
    def,                \* the defaults store (def_* values)
    user_ctx,           \* struct sudoers_user_context (fields used here)
    runas_ctx,          \* struct sudoers_runas_context (fields used here)
    prev_user,          \* SUDO_USER or "NULL"
    unknown_runas_uid,
    unknown_runas_gid,
    cmnd_status,
    snl,                \* the rule source list, "NULL" before sudoers_init
    initRet,            \* the static ret of sudoers_init
    need_reinit,
    permStack,          \* the privilege gate's stack
    rlimit,             \* the process's RLIMIT_NPROC
    nproclimit,         \* the saved limit (static struct rlimit)
    NewArgv,            \* [ptr, vec]: NewArgv with NewArgc = Len(vec)
    saved_argv,         \* pointer saved for exit logging, 0 = NULL
    loc,                \* locals of the call in progress
    result,             \* what the front-end got back from the last call
    hist,               \* history of the call in progress (observation only)
    faults,             \* environment failures injected so far
    requests,           \* request entry points called so far
    inits,              \* sudoers_init calls that ran the initialisation
    ready,              \* the front-end holds a successful sudoers_init
    sudoers_error_hook  \* the logging hook for parse errors, or "NULL"

vars == <<world, pc, fn, sudo_mode, def, user_ctx, runas_ctx, prev_user,
          unknown_runas_uid, unknown_runas_gid, cmnd_status, snl, initRet,
          need_reinit, permStack, rlimit, nproclimit, NewArgv, saved_argv,
          loc, result, hist, faults, requests, inits, ready,
          sudoers_error_hook>>

----------------------------------------------------------------------------
\* Bounds of the model.

\* Deviations of a run from the plain one ("sudo ls" by an ordinary user,
\* two readable sources without Defaults lines, no call failing): front-end
\* options, Defaults lines and unusable sources (chosen in the world), and
\* environment failures (a system call or an allocation failing).
MaxDeviations == 2

\* Request entry points called between sudoers_init and sudoers_cleanup.
MaxRequests == 2

\* Initialisations (sudoers_init after start or after sudoers_cleanup).
MaxInits == 2

----------------------------------------------------------------------------
\* Program constants.

ACCESSPERMS == 511      \* 0777
RLIM_INFINITY == 3      \* above every finite limit used here

NOT_FOUND_ERROR == "NOT_FOUND_ERROR"
FOUND == "FOUND"
NOT_FOUND == "NOT_FOUND"
NOT_FOUND_DOT == "NOT_FOUND_DOT"

PERM_INITIAL == "PERM_INITIAL"
PERM_ROOT == "PERM_ROOT"
PERM_SUDOERS == "PERM_SUDOERS"
PERM_USER == "PERM_USER"
PERM_RUNAS == "PERM_RUNAS"

\* Only these mode flags survive in an intercepted sub-command.
MODE_INTERCEPT_MASK == {"MODE_RUN", "MODE_POLICY_INTERCEPTED"}

ISSET(mode, flags) == mode \cap flags # {}

NULL == "NULL"

----------------------------------------------------------------------------
\* The privilege gate (set_perms.c): a stack of privilege states.

\* A successful push.
set_perms(stack, perm) == Append(stack, perm)

\* A successful pop; popping an empty stack changes nothing.
restore_perms(stack) ==
    IF stack = <<>> THEN stack ELSE SubSeq(stack, 1, Len(stack) - 1)

\* A successful rewind pops every frame.
rewind_perms(stack) == <<>>

\* What a failed rewind may leave behind: it stopped at a pop that failed.
RewindLeftovers(stack) == { SubSeq(stack, 1, n) : n \in 1..Len(stack) }

\* The identity the process runs with.
Identity(stack) == IF stack = <<>> THEN PERM_INITIAL ELSE stack[Len(stack)]

----------------------------------------------------------------------------
\* RLIMIT_NPROC.  A limit is [cur, max]; the static nproclimit starts zeroed.

\* An unlimit_nproc that saves the limit and does not raise it.
unlimit_nproc_saved_only(rl, saved, getOk, infOk, maxOk) ==
    [rlimit |-> rl, nproclimit |-> IF getOk THEN rl ELSE saved]

\* getrlimit into nproclimit (kept stale when it fails), then raise the limit
\* to infinity, falling back to the saved hard limit.
unlimit_nproc(rl, saved, getOk, infOk, maxOk) ==
    LET saved1 == IF getOk THEN rl ELSE saved
        rl1 == IF infOk THEN [cur |-> RLIM_INFINITY, max |-> RLIM_INFINITY]
               ELSE IF maxOk THEN [cur |-> saved1.max, max |-> saved1.max]
               ELSE rl
    IN [rlimit |-> rl1, nproclimit |-> saved1]

\* setrlimit(RLIMIT_NPROC, &nproclimit); a failure is only warned about.
restore_nproc(rl, saved, ok) == IF ok THEN saved ELSE rl

----------------------------------------------------------------------------
\* The world: what the front-end passes in and what the rule sources hold.
\* A choice is [src, scope, key]; src 0 is the front-end, 1 and 2 are the
\* rule sources in nsswitch order.

Sources == <<1, 2>>

Choice(src, scope, key) == [src |-> src, scope |-> scope, key |-> key]

InfoKeys ==
    { "uid=0", "closefrom=5", "closefrom=3", "timeout", "-E", "-P", "-s", "-i",
      "edit", "list", "check", "validate", "runas=#4242", "rungroup=#99",
      "chroot", "cwd", "SUDO_USER", "notty" }

GenericKeys ==
    { "!root_sudo", "closefrom_override", "runas_allow_unknown_id",
      "shell_noargs", "requiretty", "setenv", "intercept",
      "secure_path", "umask=077", "umask=0777", "umask_override",
      "log_output", "ignore_iolog_errors", "user_command_timeouts",
      "env_file", "runchroot" }

\* What is wrong with a source: the open as PERM_SUDOERS gets EACCES (as
\* root it works), the file is missing, it fails the checks of
\* sudo_secure_fd, it does not parse, its Defaults cannot be read.
Choices ==
    { Choice(0, "info", k) : k \in InfoKeys }
    \cup { Choice(1, "fs", k) :
              k \in {"EACCES", "ENOENT", "insecure", "noparse", "nogetdefs"} }
    \cup { Choice(2, "fs", k) : k \in {"ENOENT", "noparse"} }
    \cup { Choice(1, "generic", k) : k \in GenericKeys }
    \cup { Choice(2, "generic", k) : k \in {"root_sudo"} }
    \cup { Choice(1, "cmnd", k) : k \in {"!root_sudo", "setenv"} }
    \cup { Choice(0, "generic", k) : k \in {"requiretty"} }
    \cup { Choice(1, "generic", "runas_default=#4242"),
           Choice(2, "generic", "runas_default=nosuch") }

\* The worlds with at most n choices.
RECURSIVE WorldsUpTo(_)
WorldsUpTo(n) ==
    IF n = 0 THEN {{}}
    ELSE LET smaller == WorldsUpTo(n - 1)
         IN smaller \cup { w \cup {c} : w \in smaller, c \in Choices }

Worlds == WorldsUpTo(MaxDeviations)

Info(key) == Choice(0, "info", key) \in world

Broken(src, how) == Choice(src, "fs", how) \in world

\* Outcomes of a call that may fail: it fails only while the run has
\* deviations left.
Spent(used) == Cardinality(world) + used

Outcomes(used) == IF Spent(used) < MaxDeviations THEN {TRUE, FALSE} ELSE {TRUE}

Cost(ok) == IF ok THEN 0 ELSE 1

\* The outcomes of the system calls of unlimit_nproc.
NprocOutcomes(used) ==
    { o \in [get : BOOLEAN, inf : BOOLEAN, max : BOOLEAN] :
        /\ (o.inf => o.max)          \* the fallback runs only after a failure
        /\ Spent(used) + Cost(o.get) + Cost(o.inf) <= MaxDeviations }

\* The Defaults entries of one layer, in file order.
SettingOrder ==
    << "root_sudo", "!root_sudo", "closefrom_override",
       "runas_allow_unknown_id", "shell_noargs", "requiretty", "setenv",
       "intercept", "secure_path", "umask=077",
       "umask=0777", "umask_override", "log_output", "ignore_iolog_errors",
       "user_command_timeouts", "env_file", "runchroot" >>

Entries(src, scope) ==
    SelectSeq(SettingOrder, LAMBDA k : Choice(src, scope, k) \in world)

----------------------------------------------------------------------------
\* The defaults engine (defaults.c).

\* init_defaults: the compiled-in values.
init_defaults ==
    [ preserve_groups |-> FALSE, root_sudo |-> TRUE, closefrom |-> 3,
      closefrom_override |-> FALSE, runas_allow_unknown_id |-> FALSE,
      shell_noargs |-> FALSE, requiretty |-> FALSE, setenv |-> FALSE,
      env_reset |-> TRUE, intercept |-> FALSE, secure_path |-> NULL,
      umask |-> 18, umask_override |-> FALSE, log_io |-> {},
      iolog_templates |-> TRUE, ignore_iolog_errors |-> FALSE,
      user_command_timeouts |-> FALSE, env_file |-> NULL,
      restricted_env_file |-> NULL, runchroot |-> NULL,
      admin_flag |-> "~/.sudo_as_admin_successful" ]

\* One Defaults entry applied to the store.
set_default(d, key) ==
    CASE key = "root_sudo" -> [d EXCEPT !.root_sudo = TRUE]
      [] key = "!root_sudo" -> [d EXCEPT !.root_sudo = FALSE]
      [] key = "closefrom_override" -> [d EXCEPT !.closefrom_override = TRUE]
      [] key = "runas_allow_unknown_id" ->
            [d EXCEPT !.runas_allow_unknown_id = TRUE]
      [] key = "shell_noargs" -> [d EXCEPT !.shell_noargs = TRUE]
      [] key = "requiretty" -> [d EXCEPT !.requiretty = TRUE]
      [] key = "setenv" -> [d EXCEPT !.setenv = TRUE]
      [] key = "intercept" -> [d EXCEPT !.intercept = TRUE]
      [] key = "secure_path" -> [d EXCEPT !.secure_path = "/secure/bin"]
      [] key = "umask=077" -> [d EXCEPT !.umask = 63]
      [] key = "umask=0777" -> [d EXCEPT !.umask = ACCESSPERMS]
      [] key = "umask_override" -> [d EXCEPT !.umask_override = TRUE]
      [] key = "log_output" -> [d EXCEPT !.log_io = @ \cup {"log_output"}]
      [] key = "ignore_iolog_errors" ->
            [d EXCEPT !.ignore_iolog_errors = TRUE]
      [] key = "user_command_timeouts" ->
            [d EXCEPT !.user_command_timeouts = TRUE]
      [] key = "env_file" -> [d EXCEPT !.env_file = "/etc/sudo.env"]
      [] key = "runchroot" -> [d EXCEPT !.runchroot = "/jail"]
      [] OTHER -> d

RECURSIVE ApplyEntries(_, _)
ApplyEntries(d, entries) ==
    IF entries = <<>> THEN d
    ELSE ApplyEntries(set_default(d, Head(entries)), Tail(entries))

\* update_defaults(parse_tree, list, scope, quiet): apply one layer's entries
\* of the given scope.
update_defaults(d, src, scope) == ApplyEntries(d, Entries(src, scope))

\* The generic defaults of the sources in the list whose getdefs succeeded.
RECURSIVE ApplySources(_, _, _)
ApplySources(d, list, scope) ==
    IF list = <<>> THEN d
    ELSE ApplySources(update_defaults(d, Head(list), scope), Tail(list), scope)

----------------------------------------------------------------------------
\* What sudoers_policy_deserialize_info reads from the front-end.

InfoMode ==
    LET base == IF Info("validate") THEN {"MODE_VALIDATE"}
                ELSE IF Info("list") THEN {"MODE_LIST"}
                ELSE IF Info("check") THEN {"MODE_CHECK"}
                ELSE IF Info("edit") THEN {"MODE_EDIT"}
                ELSE {"MODE_RUN"}
    IN base
       \cup (IF Info("-E") THEN {"MODE_PRESERVE_ENV"} ELSE {})
       \cup (IF Info("-P") THEN {"MODE_PRESERVE_GROUPS"} ELSE {})
       \cup (IF Info("-s") THEN {"MODE_SHELL", "MODE_IMPLIED_SHELL"} ELSE {})
       \cup (IF Info("-i") THEN {"MODE_LOGIN_SHELL"} ELSE {})

\* user_ctx before deserialization (zeroed) and after it.
NoUserCtx ==
    [ uid |-> 0, closefrom |-> 0, timeout |-> 0, umask |-> 0, tcpgid |-> 0,
      ttypath |-> NULL, pw |-> NULL, cmnd |-> NULL, cmnd_saved |-> NULL, env_vars |-> FALSE,
      iolog_path |-> NULL, source |-> NULL ]

InfoUserCtx ==
    [ NoUserCtx EXCEPT
        !.uid = IF Info("uid=0") THEN 0 ELSE 1000,
        !.closefrom = IF Info("closefrom=5") THEN 5
                      ELSE IF Info("closefrom=3") THEN 3 ELSE -1,
        !.timeout = IF Info("timeout") THEN 60 ELSE 0,
        !.umask = 23 ]

\* The terminal of the invoking process as the front-end reports it: the
\* foreground process group of the terminal and its path.  Either may be
\* missing; without a terminal both are.
NoTty == [tcpgid |-> 0, ttypath |-> NULL]

TtyInfos ==
    IF Info("notty") THEN {NoTty}
    ELSE IF \E src \in {0, 1} : Choice(src, "generic", "requiretty") \in world
    THEN { [tcpgid |-> 100, ttypath |-> NULL],
           [tcpgid |-> 0, ttypath |-> "/dev/pts/0"] }
    ELSE {[tcpgid |-> 100, ttypath |-> "/dev/pts/0"]}

NoRunasCtx ==
    [ user |-> NULL, group |-> NULL, pw |-> NULL, gr |-> NULL,
      chroot |-> NULL, cwd |-> NULL, cmnd |-> NULL, shell |-> NULL ]

InfoRunasCtx ==
    [ NoRunasCtx EXCEPT
        !.user = IF Info("runas=#4242") THEN "#4242" ELSE NULL,
        !.group = IF Info("rungroup=#99") THEN "#99" ELSE NULL,
        !.chroot = IF Info("chroot") THEN "/jail" ELSE NULL,
        !.cwd = IF Info("cwd") THEN "/tmp" ELSE NULL ]

\* Names written "#nnn" are looked up by id first.
IsId(name) == name \in {"#4242", "#99"}

----------------------------------------------------------------------------
\* Target credentials.

\* set_runaspw: returns [ok, pw, unknown]; pw is the new runas_ctx.pw.
\* byId: the id is in the passwd database; fakeOk: sudo_fakepwnam succeeded;
\* byName: the name is in the passwd database.
set_runaspw(oldpw, user, byId, fakeOk, byName) ==
    LET unknown == IsId(user) /\ ~byId
        pw1 == IF IsId(user)
               THEN (IF byId THEN "real" ELSE IF fakeOk THEN "fake" ELSE NULL)
               ELSE NULL
        pw2 == IF pw1 = NULL THEN (IF byName THEN "real" ELSE NULL) ELSE pw1
    IN IF pw2 = NULL
       THEN [ok |-> FALSE, pw |-> oldpw, unknown |-> unknown]
       ELSE [ok |-> TRUE, pw |-> pw2, unknown |-> unknown]

\* The runas_default a source's Defaults set, if any.
RunasDefault(src) ==
    IF Choice(src, "generic", "runas_default=#4242") \in world THEN "#4242"
    ELSE IF Choice(src, "generic", "runas_default=nosuch") \in world
    THEN "nosuch" ELSE NULL

\* cb_runas_default: the target user follows runas_default unless the user
\* named a target.  No id is in the passwd database, and only the names
\* other than nosuch are.  Returns the context and the unknown-uid flag.
cb_runas_default(rc, unknown, name) ==
    IF rc.user = NULL /\ rc.group = NULL
    THEN LET r == set_runaspw(rc.pw, name, FALSE, TRUE,
                              ~IsId(name) /\ name # "nosuch")
         IN [rc |-> [rc EXCEPT !.pw = r.pw], unknown |-> r.unknown]
    ELSE [rc |-> rc, unknown |-> unknown]

\* The callbacks update_defaults fires for the sources of list.
RECURSIVE runas_callbacks(_, _, _)
runas_callbacks(rc, unknown, list) ==
    IF list = <<>> THEN [rc |-> rc, unknown |-> unknown]
    ELSE IF RunasDefault(Head(list)) = NULL
    THEN runas_callbacks(rc, unknown, Tail(list))
    ELSE LET c == cb_runas_default(rc, unknown, RunasDefault(Head(list)))
         IN runas_callbacks(c.rc, c.unknown, Tail(list))

\* set_runasgr: the same for the target group.
set_runasgr(oldgr, group, byId, fakeOk, byName) ==
    LET unknown == IsId(group) /\ ~byId
        gr1 == IF IsId(group)
               THEN (IF byId THEN "real" ELSE IF fakeOk THEN "fake" ELSE NULL)
               ELSE NULL
        gr2 == IF gr1 = NULL THEN (IF byName THEN "real" ELSE NULL) ELSE gr1
    IN IF gr2 = NULL
       THEN [ok |-> FALSE, gr |-> oldgr, unknown |-> unknown]
       ELSE [ok |-> TRUE, gr |-> gr2, unknown |-> unknown]

----------------------------------------------------------------------------
\* open_file: open a sudoers file as PERM_SUDOERS, retrying as PERM_ROOT
\* after EACCES.  o gives the outcome of each call it makes:
\*   push1, pop1, push2, pop2 : set_perms / restore_perms succeeded
\*   open1 : "ok", "EACCES" or "ENOENT";  open2 : the retry succeeded
\*   euidRoot : geteuid() is ROOT_UID while in PERM_SUDOERS
\* Returns the stack, whether a descriptor came back, and how many frames
\* it pushed and popped.
open_file(stack, o) ==
    IF ~o.push1 THEN [stack |-> stack, fd |-> FALSE, pushed |-> 0, popped |-> 0]
    ELSE
    LET s1 == set_perms(stack, PERM_SUDOERS)
        retry == o.open1 = "EACCES" /\ ~o.euidRoot
        s2 == IF retry /\ o.pop1 THEN restore_perms(s1) ELSE s1
        repush == retry /\ o.pop1 /\ o.push2
        s3 == IF repush THEN set_perms(s2, PERM_ROOT) ELSE s2
        fd3 == IF repush THEN o.open2 ELSE o.open1 = "ok"
        s4 == IF o.pop2 THEN restore_perms(s3) ELSE s3
    IN [ stack |-> s4,
         fd |-> fd3 /\ o.pop2,
         pushed |-> 1 + (IF repush THEN 1 ELSE 0),
         popped |-> (IF retry /\ o.pop1 THEN 1 ELSE 0)
                    + (IF o.pop2 THEN 1 ELSE 0) ]

\* The outcomes open_file can meet on source src.  What open() returns is
\* the world's; the gate's calls may fail.  Calls it does not make are TRUE.
OpenFileOutcomes(src, used) ==
    { o \in [ push1 : BOOLEAN,
              open1 : {IF Broken(src, "EACCES") THEN "EACCES"
                       ELSE IF Broken(src, "ENOENT") THEN "ENOENT" ELSE "ok"},
              euidRoot : {FALSE}, pop1 : BOOLEAN, push2 : BOOLEAN,
              open2 : {TRUE}, pop2 : BOOLEAN ] :
        LET retry == o.push1 /\ o.open1 = "EACCES" /\ ~o.euidRoot
        IN /\ (~o.push1 => o.pop2)
           /\ (~retry => o.pop1 /\ o.push2)
           /\ (retry /\ ~o.pop1 => o.push2)
           /\ Spent(used) + Cost(o.push1) + Cost(o.pop1) + Cost(o.push2)
                + Cost(o.pop2) <= MaxDeviations }

\* open_sudoers: open_file through sudo_open_conf_path, then the checks of
\* sudo_secure_fd and the read test; secure is what those found.
open_sudoers(stack, o, secure) ==
    LET f == open_file(stack, o)
    IN [stack |-> f.stack, fp |-> f.fd /\ secure,
        pushed |-> f.pushed, popped |-> f.popped]

----------------------------------------------------------------------------
\* State shared by the actions.

ctxVars == <<user_ctx, runas_ctx, prev_user, unknown_runas_uid,
             unknown_runas_gid>>
nprocVars == <<rlimit, nproclimit>>
argvVars == <<NewArgv, saved_argv>>

\* The defaults store before init_defaults ran (static storage).
ZeroDefaults ==
    [ preserve_groups |-> FALSE, root_sudo |-> FALSE, closefrom |-> 0,
      closefrom_override |-> FALSE, runas_allow_unknown_id |-> FALSE,
      shell_noargs |-> FALSE, requiretty |-> FALSE, setenv |-> FALSE,
      env_reset |-> FALSE, intercept |-> FALSE, secure_path |-> NULL,
      umask |-> 0, umask_override |-> FALSE, log_io |-> {},
      iolog_templates |-> FALSE, ignore_iolog_errors |-> FALSE,
      user_command_timeouts |-> FALSE, env_file |-> NULL,
      restricted_env_file |-> NULL, runchroot |-> NULL, admin_flag |-> NULL ]

\* Locals of the call in progress.
NoLoc ==
    [ todo |-> <<>>, sources |-> 0, skip |-> FALSE, ret |-> -1,
      validated |-> {}, iolog_path |-> NULL, cmnd_umask |-> ACCESSPERMS,
      argv |-> <<>>, env_add |-> FALSE, pwflag |-> 0, env |-> {},
      list_user |-> NULL ]

\* One record of a function's use of the gate: the stack it was entered
\* and left with, the frames it pushed and popped, and whether a pop failed.
GateUse(func, before, after, pushed, popped, failed) ==
    [ func |-> func, before |-> before, after |-> after, pushed |-> pushed,
      popped |-> popped, failed |-> failed ]

NoGateUse == GateUse("none", <<>>, <<>>, 0, 0, FALSE)

\* What happened in the call in progress; gate is the latest use.
\* What a request's call of tty_present did; none yet.
NoTtyCheck ==
    [checked |-> FALSE, opened |-> FALSE, openOk |-> TRUE, present |-> TRUE]

\* What the SUDO_USER rebinding of a request did; nothing yet.
NoRebind ==
    [reached |-> FALSE, resolves |-> TRUE, old |-> NULL, bound |-> FALSE,
     delref |-> <<>>]

\* sudoers_reinit_defaults did not run in this request.
NoHookUse ==
    [ran |-> FALSE, entry |-> NULL, before |-> <<>>, during |-> <<>>,
     after |-> NULL]

\* No call of sudoers_policy_store_result in this request.
NoStore == [pending |-> -1, called |-> FALSE, ok |-> TRUE]

NoHist ==
    [ entryStack |-> <<>>, entryRlimit |-> [cur |-> 0, max |-> 0],
      trace |-> <<>>, searches |-> <<>>, gate |-> NoGateUse, unlimits |-> 0,
      restores |-> 0, getOk |-> TRUE, restoreOk |-> TRUE, rewind |-> "none",
      pivots |-> 0, unpivots |-> 0, exempt |-> FALSE, status |-> NULL,
      validated |-> {}, stop |-> "none", argv |-> <<>>,
      saved |-> [cmnd |-> NULL, argv |-> 0], sources |-> 0,
      initDef |-> ZeroDefaults, initDone |-> FALSE, dirty |-> FALSE,
      infOk |-> TRUE, pathRet |-> NULL, good |-> <<>>, tried |-> 0,
      tty |-> NoTtyCheck, auth |-> {}, chroot |-> {}, cwd |-> {},
      denial |-> {}, rebind |-> NoRebind,
      closefrom |-> [reached |-> FALSE, configured |-> 0],
      iolog |-> {}, modeIn |-> {}, hook |-> NoHookUse, firstRet |-> -1,
      store |-> NoStore, checks |-> 0,
      entryPw |-> NULL, lookupPw |-> {}, authPw |-> {}, boundPw |-> NULL,
      entryBound |-> NULL, freed |-> {},
      buf |-> [given |-> 0, argc |-> 0, slots |-> 0, mem |-> <<>>,
               written |-> {}] ]

\* The decision record handed to the front-end; ret -1 is none stored.
NoRecord ==
    [ ret |-> -1, argv |-> <<>>, env |-> {}, umask |-> ACCESSPERMS,
      iolog_path |-> NULL ]

store_result(ret, argv, env, umask, iolog_path) ==
    [ ret |-> ret, argv |-> argv, env |-> env, umask |-> umask,
      iolog_path |-> iolog_path ]

NoResult == [fn |-> "none", ret |-> 0, stored |-> NoRecord]

Init ==
    /\ world \in Worlds
    /\ pc = "idle"
    /\ fn = "none"
    /\ sudo_mode = {}
    /\ def = ZeroDefaults
    /\ user_ctx = NoUserCtx
    /\ runas_ctx = NoRunasCtx
    /\ prev_user = NULL
    /\ unknown_runas_uid = FALSE
    /\ unknown_runas_gid = FALSE
    /\ cmnd_status = NOT_FOUND_ERROR
    /\ snl = NULL
    /\ initRet = -1
    /\ need_reinit = FALSE
    /\ permStack = <<>>
    /\ rlimit = [cur |-> 1, max |-> 2]
    /\ nproclimit = [cur |-> 0, max |-> 0]
    /\ NewArgv = [ptr |-> 0, vec |-> <<>>]
    /\ saved_argv = 0
    /\ loc = NoLoc
    /\ result = NoResult
    /\ hist = NoHist
    /\ faults = 0
    /\ requests = 0
    /\ inits = 0
    /\ ready = FALSE
    /\ sudoers_error_hook = NULL

----------------------------------------------------------------------------
\* sudoers_init

\* The steps of sudoers_init before the source loop, in program order; the
\* call fails at one of them or at "none".
InitStages ==
    << "env_init", "init_defaults", "deserialize", "initlocale",
       "set_perms_initial", "unknown_user", "set_runaspw", "set_perms_root",
       "update_defaults", "none" >>

StagePos(stage) == CHOOSE i \in 1..Len(InitStages) : InitStages[i] = stage

\* The step `stage` ran and succeeded when the call fails at failAt.
Passed(stage, failAt) == StagePos(stage) < StagePos(failAt)

InitFailures(used) ==
    IF Spent(used) < MaxDeviations THEN { InitStages[i] : i \in 1..Len(InitStages) }
    ELSE {"none"}

\* init_vars: the invoking user's entry, the PERM_INITIAL push, the target
\* credentials.  The target group is resolved before the target user.
init_vars_runas(failAt) ==
    LET rc == InfoRunasCtx
        g == IF rc.group # NULL
             THEN set_runasgr(NULL, rc.group, FALSE, TRUE, FALSE)
             ELSE [ok |-> TRUE, gr |-> NULL, unknown |-> FALSE]
        name == IF rc.user # NULL THEN rc.user
                ELSE IF rc.group # NULL THEN "invoker" ELSE "root"
        u == IF failAt = "set_runaspw"
             THEN set_runaspw(NULL, name, FALSE, FALSE, FALSE)
             ELSE set_runaspw(NULL, name, FALSE, TRUE, rc.user = NULL)
    IN [ ctx |-> [rc EXCEPT !.gr = g.gr, !.pw = u.pw],
         unknown_uid |-> u.unknown, unknown_gid |-> g.unknown ]

sudoers_init_again ==
    /\ pc = "idle"
    /\ snl # NULL
    /\ result.fn = "init"
    /\ result' = [fn |-> "init", ret |-> initRet, stored |-> NoRecord]
    /\ ready' = (initRet = 1)
    /\ UNCHANGED sudoers_error_hook
    /\ UNCHANGED <<world, pc, fn, sudo_mode, def, ctxVars, cmnd_status, snl,
                   initRet, need_reinit, permStack, nprocVars, argvVars, loc,
                   hist, faults, requests, inits>>

\* The value of SUDO_USER in the invoker's environment, when it is set.
SudoUsers == {"alice", "root"}

\* pw_shell of the target user's passwd entry; it is read only for a login
\* shell.
PwShells == {"/bin/bash", "/bin/sh"}

\* The logger the front-end passes to sudoers_init.
Logger == "logger"

sudoers_init ==
    /\ pc = "idle"
    /\ snl = NULL
    /\ inits < MaxInits
    /\ \E failAt \in InitFailures(faults),
          shell \in IF Info("-i") THEN PwShells ELSE {"/bin/bash"},
          tty \in TtyInfos,
          prev \in IF Info("SUDO_USER") THEN SudoUsers ELSE {NULL} :
        LET r == init_vars_runas(failAt)
            uc == [InfoUserCtx EXCEPT !.tcpgid = tty.tcpgid,
                                      !.ttypath = tty.ttypath]
            s1 == IF Passed("set_perms_initial", failAt)
                  THEN set_perms(permStack, PERM_INITIAL) ELSE permStack
            s2 == IF Passed("set_perms_root", failAt)
                  THEN set_perms(s1, PERM_ROOT) ELSE s1
        IN
        /\ faults' = faults + (IF failAt = "none" THEN 0 ELSE 1)
        /\ inits' = inits + 1
        /\ def' = IF Passed("update_defaults", failAt)
                  THEN update_defaults(init_defaults, 0, "generic")
                  ELSE IF Passed("init_defaults", failAt) THEN init_defaults
                  ELSE def
        /\ sudo_mode' = IF failAt = "deserialize" THEN {"MODE_ERROR"}
                        ELSE IF Passed("deserialize", failAt) THEN InfoMode
                        ELSE sudo_mode
        /\ user_ctx' = IF ~Passed("deserialize", failAt) THEN user_ctx
                       ELSE IF ~Passed("initlocale", failAt) THEN uc
                       ELSE [uc EXCEPT !.pw =
                                IF Passed("unknown_user", failAt)
                                   \/ failAt = "set_perms_initial"
                                THEN "invoker" ELSE "fake"]
        /\ (~Passed("initlocale", failAt) /\ prev # NULL => prev = "alice")
        /\ prev_user' = IF Passed("initlocale", failAt) /\ Info("SUDO_USER")
                        THEN prev ELSE prev_user
        /\ (~Passed("unknown_user", failAt) => shell = "/bin/bash")
        /\ (~Passed("deserialize", failAt) =>
                tty = CHOOSE t \in TtyInfos : TRUE)
        /\ runas_ctx' = IF Passed("unknown_user", failAt)
                        THEN [r.ctx EXCEPT !.shell = shell]
                        ELSE IF Passed("deserialize", failAt) THEN InfoRunasCtx
                        ELSE runas_ctx
        /\ unknown_runas_uid' = IF Passed("unknown_user", failAt)
                                THEN r.unknown_uid ELSE unknown_runas_uid
        /\ unknown_runas_gid' = IF Passed("unknown_user", failAt)
                                   /\ InfoRunasCtx.group # NULL
                                THEN r.unknown_gid ELSE unknown_runas_gid
        /\ snl' = IF Passed("set_runaspw", failAt) THEN Sources ELSE snl
        /\ permStack' = s2
        /\ hist' = [NoHist EXCEPT !.entryStack = permStack,
                                  !.entryRlimit = rlimit]
        /\ IF Passed("set_perms_root", failAt)
           THEN /\ pc' = IF failAt = "none" THEN "init_sources" ELSE "init_done"
                /\ fn' = "init"
                /\ loc' = [NoLoc EXCEPT !.todo = Sources,
                                        !.skip = (failAt # "none")]
                /\ UNCHANGED result
           ELSE /\ pc' = "idle"
                /\ fn' = "none"
                /\ loc' = NoLoc
                /\ result' = [fn |-> "init", ret |-> -1, stored |-> NoRecord]
    /\ sudoers_error_hook' = Logger
    /\ UNCHANGED <<world, cmnd_status, initRet, need_reinit, nprocVars,
                   argvVars, requests, ready>>

\* A removal that drops the rest of the list with x.
Remove_with_rest(list, x) ==
    LET before == { i \in 1..Len(list) : \A j \in 1..i : list[j] # x }
    IN SubSeq(list, 1, Cardinality(before))

\* Delete x from a list (TAILQ_REMOVE).
Remove(list, x) == SelectSeq(list, LAMBDA y : y # x)

\* One turn of the source loop for the first source still to do: open and
\* parse it (dropping it on failure), then read and apply its defaults.
sudoers_init_source ==
    /\ pc = "init_sources"
    /\ loc.todo # <<>>
    /\ LET nss == Head(loc.todo) IN
       \E o \in OpenFileOutcomes(nss, faults) :
        LET f == open_sudoers(permStack, o, ~Broken(nss, "insecure"))
            good == f.fp /\ ~Broken(nss, "noparse")
            getdefs == ~Broken(nss, "nogetdefs")
        IN
        /\ permStack' = f.stack
        /\ faults' = faults + Cost(o.push1) + Cost(o.pop1) + Cost(o.push2)
                        + Cost(o.pop2)
        /\ snl' = IF good THEN snl ELSE Remove(snl, nss)
        /\ def' = IF good /\ getdefs THEN update_defaults(def, nss, "generic")
                  ELSE def
        /\ \E c \in {runas_callbacks(runas_ctx, unknown_runas_uid,
                                      IF good /\ getdefs THEN <<nss>>
                                      ELSE <<>>)} :
              /\ runas_ctx' = c.rc
              /\ unknown_runas_uid' = c.unknown
        /\ loc' = [loc EXCEPT !.todo = Tail(loc.todo),
                              !.sources = IF good THEN @ + 1 ELSE @]
        /\ hist' = [hist EXCEPT
                      !.good = IF good THEN Append(@, nss) ELSE @,
                      !.tried = @ + 1,
                      !.gate =
                      GateUse("open_file", permStack, f.stack, f.pushed,
                              f.popped, ~(o.pop1 /\ o.pop2))]
        /\ pc' = IF Tail(loc.todo) = <<>> THEN "init_done" ELSE "init_sources"
    /\ UNCHANGED <<world, fn, sudo_mode, user_ctx, prev_user,
                   unknown_runas_gid, cmnd_status, initRet, need_reinit,
                   nprocVars, argvVars, result, requests, inits, ready,
                   sudoers_error_hook>>

\* After the loop: the no-sources check, set_loginclass, and the cleanup
\* label, which pops the PERM_ROOT frame and returns the static ret.
sudoers_init_done ==
    /\ pc = "init_done"
    /\ \E loginclass \in Outcomes(faults) :
       \E pop \in Outcomes(faults + Cost(loginclass)) :
        LET ret1 == IF ~loc.skip /\ loc.sources # 0 /\ loginclass
                    THEN 1 ELSE initRet
            ret2 == IF pop THEN ret1 ELSE -1
            after == IF pop THEN restore_perms(permStack) ELSE permStack
        IN
        /\ (loc.skip \/ loc.sources = 0 => loginclass)
        /\ initRet' = ret2
        /\ permStack' = after
        /\ faults' = faults + Cost(loginclass) + Cost(pop)
        /\ result' = [fn |-> "init", ret |-> ret2, stored |-> NoRecord]
        /\ ready' = (ret2 = 1)
        /\ UNCHANGED sudoers_error_hook
        /\ hist' = [hist EXCEPT
                      !.sources = loc.sources,
                      !.initDef = def,
                      !.initDone = ~loc.skip,
                      !.firstRet = ret2,
                      !.gate =
                      GateUse("sudoers_init", hist.entryStack, after, 1,
                              IF pop THEN 1 ELSE 0, ~pop)]
    /\ pc' = "idle"
    /\ fn' = "none"
    /\ loc' = NoLoc
    /\ UNCHANGED <<world, sudo_mode, def, ctxVars, cmnd_status, snl,
                   need_reinit, nprocVars, argvVars, requests, inits>>

----------------------------------------------------------------------------
\* sudoers_reinit_defaults: the compiled-in values, the front-end's initial
\* defaults, then the generic defaults of every source left in the list
\* whose getdefs succeeds; the admin flag is dropped in intercepted mode.
\* Returns [ok, def]; failAt names the step that failed, or "none".

\* A re-initialisation that applies the defaults of every source, readable
\* or not.
GetdefsOk_unchecked(list) == list

GetdefsOk(list) == SelectSeq(list, LAMBDA n : ~Broken(n, "nogetdefs"))

\* A re-initialisation that applies the sequence on top of the current
\* store, without init_defaults.
sudoers_reinit_defaults_on_top(d, list, mode, failAt) ==
    IF failAt = "init_defaults" THEN [ok |-> FALSE, def |-> d]
    ELSE IF failAt = "update_defaults" THEN [ok |-> FALSE, def |-> d]
    ELSE LET d1 == update_defaults(d, 0, "generic")
             d2 == ApplySources(d1, GetdefsOk(list), "generic")
         IN [ ok |-> TRUE,
              def |-> IF "MODE_POLICY_INTERCEPTED" \in mode
                      THEN [d2 EXCEPT !.admin_flag = NULL] ELSE d2 ]

sudoers_reinit_defaults(d, list, mode, failAt) ==
    IF failAt = "init_defaults" THEN [ok |-> FALSE, def |-> d]
    ELSE IF failAt = "update_defaults" THEN [ok |-> FALSE, def |-> init_defaults]
    ELSE LET d1 == update_defaults(init_defaults, 0, "generic")
             d2 == ApplySources(d1, GetdefsOk(list), "generic")
         IN [ ok |-> TRUE,
              def |-> IF "MODE_POLICY_INTERCEPTED" \in mode
                      THEN [d2 EXCEPT !.admin_flag = NULL] ELSE d2 ]

\* A re-initialisation that leaves the hook off.
reinit_hook_left_off(hook, list, failAt) ==
    IF failAt = "init_defaults"
    THEN [ran |-> TRUE, entry |-> hook, before |-> <<hook>>, during |-> <<>>,
          after |-> hook]
    ELSE IF failAt = "update_defaults"
    THEN [ran |-> TRUE, entry |-> hook, before |-> <<hook, hook>>,
          during |-> <<>>, after |-> hook]
    ELSE [ran |-> TRUE, entry |-> hook, before |-> <<hook, hook>>,
          during |-> [i \in 1..Len(list) |-> NULL], after |-> NULL]

\* sudoers_error_hook in sudoers_reinit_defaults: its value at entry, in
\* init_defaults and the update of the initial defaults, at the getdefs and
\* update_defaults of each source, and on return.
reinit_hook(hook, list, failAt) ==
    IF failAt = "init_defaults"
    THEN [ran |-> TRUE, entry |-> hook, before |-> <<hook>>, during |-> <<>>,
          after |-> hook]
    ELSE IF failAt = "update_defaults"
    THEN [ran |-> TRUE, entry |-> hook, before |-> <<hook, hook>>,
          during |-> <<>>, after |-> hook]
    ELSE [ran |-> TRUE, entry |-> hook, before |-> <<hook, hook>>,
          during |-> [i \in 1..Len(list) |-> NULL], after |-> hook]

ReinitFailures(used) ==
    IF Spent(used) < MaxDeviations
    THEN {"init_defaults", "update_defaults", "none"} ELSE {"none"}

----------------------------------------------------------------------------
\* sudoers_check_cmnd

\* The argument vectors the front-end passes to the check entry point; the
\* empty one is argc == 0.
Argvs == { <<>>, <<"ls">>, <<"bash", "-c", "id">>, <<"sudoedit", "f">> }

Plain(argv, env_add) == argv = <<"ls">> /\ ~env_add

\* A re-entry that masks the mode flags before it marks the interception.
reinit_mode_mask_first(mode, intercept) ==
    LET m == IF "MODE_POLICY_INTERCEPTED" \in mode
             THEN mode \cap MODE_INTERCEPT_MASK ELSE mode
    IN IF ISSET(m, {"MODE_RUN"}) /\ intercept
       THEN m \cup {"MODE_POLICY_INTERCEPTED"} ELSE m

\* The mode flags of a re-entered check: the previous command was
\* intercepted, and then only the intercept-legal flags stay.
reinit_mode(mode, intercept) ==
    LET m == IF ISSET(mode, {"MODE_RUN"}) /\ intercept
             THEN mode \cup {"MODE_POLICY_INTERCEPTED"} ELSE mode
    IN IF "MODE_POLICY_INTERCEPTED" \in m THEN m \cap MODE_INTERCEPT_MASK ELSE m

\* The entry point the front-end's mode asks for; it calls another one only
\* as a deviation.
Asked(mode) ==
    IF ISSET(mode, {"MODE_VALIDATE"}) THEN "validate"
    ELSE IF ISSET(mode, {"MODE_LIST", "MODE_CHECK"}) THEN "list"
    ELSE "check"

\* A return to the front-end without teardown.
Return(f, ret) ==
    /\ pc' = "idle"
    /\ fn' = "none"
    /\ loc' = NoLoc
    /\ result' = [fn |-> f, ret |-> ret, stored |-> NoRecord]

\* A re-initialisation only after an intercepted command.
reinit_due_if_intercepted(need, mode, intercept) ==
    need /\ ISSET(mode, {"MODE_RUN"}) /\ intercept

\* The defaults are re-initialised whenever need_reinit is set.
reinit_due(need, mode, intercept) == need

\* Entry: the argc test, the re-initialisation of a repeated call, and the
\* raise of RLIMIT_NPROC.
sudoers_check_cmnd ==
    /\ pc = "idle"
    /\ ready
    /\ requests < MaxRequests
    /\ requests' = requests + 1
    /\ \E argv \in Argvs, env_add \in BOOLEAN,
          failAt \in ReinitFailures(faults), n \in NprocOutcomes(faults) :
        LET cost0 == Cost(Plain(argv, env_add)) + Cost(Asked(sudo_mode) = "check")
            due == reinit_due(need_reinit, sudo_mode, def.intercept)
            mode1 == IF due THEN reinit_mode(sudo_mode, def.intercept)
                     ELSE sudo_mode
            r == IF due
                 THEN sudoers_reinit_defaults(def, snl, mode1, failAt)
                 ELSE [ok |-> TRUE, def |-> def]
            u == unlimit_nproc(rlimit, nproclimit, n.get, n.inf, n.max)
            h == IF due /\ argv # <<>>
                 THEN reinit_hook(sudoers_error_hook, snl, failAt)
                 ELSE [NoHookUse EXCEPT !.entry = sudoers_error_hook,
                                        !.after = sudoers_error_hook]
            entry == [NoHist EXCEPT
                        !.hook = h,
                        !.checks = hist.checks + Cost(argv = <<>>),
                        !.entryPw = user_ctx.pw,
                        !.boundPw = hist.boundPw,
                        !.entryBound = hist.boundPw,
                        !.freed = hist.freed,
                        !.initDef = hist.initDef,
                        !.initDone = hist.initDone,
                        !.firstRet = hist.firstRet,
                        !.dirty = (def # hist.initDef),
                        !.entryStack = permStack,
                        !.entryRlimit = rlimit,
                        !.argv = NewArgv.vec,
                        !.saved = [cmnd |-> user_ctx.cmnd_saved,
                                   argv |-> saved_argv]]
        IN
        /\ (~due \/ argv = <<>> => failAt = "none")
        /\ (argv = <<>> \/ ~r.ok => n.get /\ n.inf)
        /\ (ISSET(sudo_mode, {"MODE_CHECK"}) => Len(argv) # 1)
        /\ Spent(faults) + cost0 + Cost(failAt = "none") + Cost(n.get)
              + Cost(n.inf) <= MaxDeviations
        /\ faults' = faults + cost0 + Cost(failAt = "none") + Cost(n.get)
              + Cost(n.inf)
        /\ sudoers_error_hook' = h.after
        /\ IF argv = <<>>
           THEN /\ Return("check", -1)
                /\ hist' = entry
                /\ UNCHANGED <<sudo_mode, def, need_reinit, nprocVars>>
           ELSE IF ~r.ok
           THEN /\ Return("check", -1)
                /\ hist' = [entry EXCEPT !.trace = <<"reinit_defaults">>]
                /\ sudo_mode' = mode1
                /\ def' = r.def
                /\ UNCHANGED <<need_reinit, nprocVars>>
           ELSE /\ sudo_mode' = mode1
                /\ def' = r.def
                /\ need_reinit' = TRUE
                /\ rlimit' = u.rlimit
                /\ nproclimit' = u.nproclimit
                /\ hist' = [entry EXCEPT
                              !.unlimits = 1, !.getOk = n.get,
                              !.infOk = n.inf,
                              !.trace = (IF due
                                         THEN <<"reinit_defaults">> ELSE <<>>)
                                        \o <<"unlimit_nproc">>]
                /\ pc' = "check_setup"
                /\ fn' = "check"
                /\ loc' = [NoLoc EXCEPT !.argv = argv, !.env_add = env_add]
                /\ UNCHANGED result
        /\ \E c \in {runas_callbacks(runas_ctx, unknown_runas_uid,
                                      IF due /\ argv # <<>> /\ r.ok
                                      THEN GetdefsOk(snl) ELSE <<>>)} :
              /\ runas_ctx' = c.rc
              /\ unknown_runas_uid' = c.unknown
    /\ UNCHANGED <<world, user_ctx, prev_user, unknown_runas_gid, cmnd_status,
                   snl, initRet, permStack, argvVars, inits, ready>>

----------------------------------------------------------------------------
\* Command resolution.

\* Where find_path finds a command, and sudo_basename of the result.
Resolve(name) ==
    CASE name = "ls" -> "/usr/bin/ls"
      [] name = "bash" -> "/usr/bin/bash"
      [] name = "sudoedit" -> "/usr/bin/sudoedit"
      [] name = "list" -> "/usr/bin/list"
      [] name = "validate" -> "/usr/bin/validate"
      [] OTHER -> name

sudo_basename(path) ==
    CASE path = "/usr/bin/ls" -> "ls"
      [] path = "/usr/bin/bash" -> "bash"
      [] path = "/bin/bash" -> "bash"
      [] path = "/bin/sh" -> "sh"
      [] path = "/usr/bin/sudoedit" -> "sudoedit"
      [] path = "/usr/bin/list" -> "list"
      [] path = "/usr/bin/validate" -> "validate"
      [] OTHER -> path

UserPath == "/usr/local/bin:."

FindResults == {FOUND, NOT_FOUND, NOT_FOUND_DOT, NOT_FOUND_ERROR}

\* A PATH choice that forgets the exemption.
search_path_no_exempt(secure_path, exempt) ==
    IF secure_path # NULL THEN secure_path ELSE UserPath

\* The PATH set_cmnd_path searches.
search_path(secure_path, exempt) ==
    IF secure_path # NULL /\ ~exempt THEN secure_path ELSE UserPath

\* A search that returns without popping the identity it pushed.
search_without_pop(stack, perm, pushOk, popOk) ==
    IF ~pushOk THEN [stack |-> stack, pushed |-> FALSE, popped |-> FALSE]
    ELSE [stack |-> set_perms(stack, perm), pushed |-> TRUE, popped |-> popOk]

\* One search of set_cmnd_path: the push of perm, find_path, the pop.
\* Returns the stack and whether the push and the pop succeeded.
search(stack, perm, pushOk, popOk) ==
    IF ~pushOk THEN [stack |-> stack, pushed |-> FALSE, popped |-> FALSE]
    ELSE IF ~popOk
    THEN [stack |-> set_perms(stack, perm), pushed |-> TRUE, popped |-> FALSE]
    ELSE [stack |-> restore_perms(set_perms(stack, perm)), pushed |-> TRUE,
          popped |-> TRUE]

\* An error label that returns without unpivot_root.
unpivot_root_calls_no_error(runchroot, error) ==
    IF error THEN 0
    ELSE IF runchroot # NULL THEN 1 ELSE 0

\* The calls of unpivot_root: one at the error label, or one before the
\* return of the status, each only for a chroot.
unpivot_root_calls(runchroot, error) ==
    IF error THEN (IF runchroot # NULL THEN 1 ELSE 0)
    ELSE IF runchroot # NULL THEN 1 ELSE 0

\* A retry after every search that did not find the command.
retry_as_user_unless_found(ret) == ret # FOUND

\* The search is repeated as the invoking user when the first one did not
\* find the command.
retry_as_user(ret) == ret = NOT_FOUND

\* set_cmnd_path.  o gives the outcome of each call it makes:
\*   pivot, push1, pop1, push2, pop2 : pivot_root / set_perms / restore_perms
\*   find1, find2 : what find_path returned;  canon : canon_path did not
\*   run out of memory.
\* Returns the status, the stack, the searches made (identity and PATH of
\* each, what find_path returned, whether the pop succeeded), and the pivot
\* and gate counts.
set_cmnd_path(stack, runchroot, path, o) ==
    LET pivoted == runchroot # NULL /\ o.pivot
        first == runchroot = NULL \/ o.pivot
        none(s) == [stack |-> s, pushed |-> FALSE, popped |-> FALSE]
        \* r1 and r2 are what the first and the second search returned.
        done(r1, r2, second) ==
            LET last == IF second THEN o.find2 ELSE o.find1
                ok == r1.popped /\ (second => r2.popped)
                      /\ (last = FOUND => o.canon)
            IN [ ret |-> IF ok THEN last ELSE NOT_FOUND_ERROR,
                 stack |-> r2.stack,
                 searches |->
                    (IF r1.pushed
                     THEN <<[perm |-> PERM_RUNAS, path |-> path,
                             ret |-> o.find1, popped |-> r1.popped]>>
                     ELSE <<>>)
                    \o (IF r2.pushed
                        THEN <<[perm |-> PERM_USER, path |-> path,
                                ret |-> o.find2, popped |-> r2.popped]>>
                        ELSE <<>>),
                 pivots |-> IF pivoted THEN 1 ELSE 0,
                 unpivots |-> unpivot_root_calls(runchroot, ~ok),
                 pushed |-> (IF r1.pushed THEN 1 ELSE 0)
                            + (IF r2.pushed THEN 1 ELSE 0),
                 popped |-> (IF r1.popped THEN 1 ELSE 0)
                            + (IF r2.popped THEN 1 ELSE 0),
                 failed |-> (r1.pushed /\ ~r1.popped)
                            \/ (r2.pushed /\ ~r2.popped) ]
        retry(r1) ==
            IF r1.popped /\ retry_as_user(o.find1)
            THEN done(r1, search(r1.stack, PERM_USER, o.push2, o.pop2), TRUE)
            ELSE done(r1, none(r1.stack), FALSE)
    IN IF first THEN retry(search(stack, PERM_RUNAS, o.push1, o.pop1))
       ELSE retry(none(stack))

\* The outcomes of a set_cmnd_path that is not called.
NoPathOutcome ==
    [ pivot |-> TRUE, push1 |-> TRUE, find1 |-> FOUND, pop1 |-> TRUE,
      push2 |-> TRUE, find2 |-> FOUND, pop2 |-> TRUE, canon |-> TRUE ]

\* The outcomes set_cmnd_path can meet; calls it does not make are TRUE
\* or FOUND.
SetCmndPathOutcomes(used, runchroot) ==
    IF Spent(used) >= MaxDeviations THEN {NoPathOutcome} ELSE
    { o \in [ pivot : BOOLEAN, push1 : BOOLEAN, find1 : FindResults,
              pop1 : BOOLEAN, push2 : BOOLEAN, find2 : FindResults,
              pop2 : BOOLEAN, canon : BOOLEAN ] :
        LET push1 == (runchroot = NULL \/ o.pivot) /\ o.push1
            second == push1 /\ o.pop1 /\ o.find1 = NOT_FOUND
            push2 == second /\ o.push2
            last == IF second THEN o.find2 ELSE o.find1
            ok == push1 /\ o.pop1 /\ (second => push2 /\ o.pop2)
        IN /\ (runchroot = NULL => o.pivot)
           /\ (~o.pivot => o.push1)
           /\ (~push1 => o.find1 = FOUND /\ o.pop1)
           /\ (~second => o.push2)
           /\ (~push2 => o.find2 = FOUND /\ o.pop2)
           /\ (~(ok /\ last = FOUND) => o.canon)
           /\ Spent(used) + Cost(o.pivot) + Cost(o.push1) + Cost(o.pop1)
                + Cost(o.push2) + Cost(o.pop2) + Cost(o.canon)
                + Cost(o.find1 = FOUND) + Cost(o.find2 = FOUND)
                <= MaxDeviations }

SetCmndPathCost(o) ==
    Cost(o.pivot) + Cost(o.push1) + Cost(o.pop1) + Cost(o.push2)
    + Cost(o.pop2) + Cost(o.canon) + Cost(o.find1 = FOUND)
    + Cost(o.find2 = FOUND)

\* The position of a step in a list of steps in program order.
Pos(steps, x) == CHOOSE i \in 1..Len(steps) : steps[i] = x

\* Where the pipeline goes when sudoers_check_common returns ret to f.
AfterCommon(f, ret) ==
    IF f = "check" THEN (IF ret = 1 THEN "check_allow" ELSE "check_done")
    ELSE IF f = "validate" THEN "validate_done"
    ELSE "list_done"

----------------------------------------------------------------------------
\* sudoers_check_common, step 1: set_cmnd, then the root and closefrom gates.

\* The chroot set_cmnd hands to set_cmnd_path.
cmnd_runchroot(chroot, def_runchroot) ==
    IF chroot = NULL /\ def_runchroot # NULL /\ def_runchroot # "*"
    THEN def_runchroot ELSE chroot

\* The word set_cmnd_path looks up.
cmnd_in(mode, vec) ==
    LET i == IF ISSET(mode, {"MODE_CHECK"}) THEN 2 ELSE 1
    IN IF i <= Len(vec) THEN vec[i] ELSE NULL

\* A conversion that leaves MODE_RUN set.
sudoedit_mode_keep_run(mode) == mode \cup {"MODE_EDIT"}

\* "sudo sudoedit" becomes "sudoedit": CLR(MODE_RUN), SET(MODE_EDIT).
sudoedit_mode(mode) == (mode \ {"MODE_RUN"}) \cup {"MODE_EDIT"}

\* set_cmnd.  failAt is the allocation that fails if it is reached, o the
\* outcomes of set_cmnd_path.  Returns the status, the state it leaves and
\* the allocation that did fail.
set_cmnd(stack, mode, d, uc, rc, vec, list, exempt, failAt, o) ==
    LET with(p) ==
    LET searching == ISSET(mode, {"MODE_RUN", "MODE_EDIT", "MODE_CHECK"})
                  /\ ~ISSET(mode, {"MODE_EDIT"})
        ran == failAt # "calloc" /\ searching
        out == IF ran /\ p.ret = FOUND /\ ~ISSET(mode, {"MODE_CHECK"})
               THEN Resolve(cmnd_in(mode, vec)) ELSE NULL
        cmnd1 == IF ran THEN out ELSE uc.cmnd
        cmnd2 == IF cmnd1 = NULL THEN vec[1] ELSE cmnd1
        edit == ISSET(mode, {"MODE_RUN"}) /\ sudo_basename(cmnd2) = "sudoedit"
        mode1 == IF edit THEN sudoedit_mode(mode) ELSE mode
        args == ISSET(mode, {"MODE_RUN", "MODE_EDIT", "MODE_CHECK"})
                /\ Len(vec) > (IF ISSET(mode, {"MODE_CHECK"}) THEN 2 ELSE 1)
        gate == IF ran THEN p
                ELSE [p EXCEPT !.stack = stack, !.searches = <<>>,
                               !.pivots = 0, !.unpivots = 0, !.pushed = 0,
                               !.popped = 0, !.failed = FALSE]
        rc1 == [rc EXCEPT !.cmnd = NULL]
    IN IF failAt = "calloc"
       THEN [ret |-> NOT_FOUND_ERROR, mode |-> mode, def |-> d, uc |-> uc,
             rc |-> rc, gate |-> gate, at |-> "calloc"]
       ELSE IF ran /\ p.ret = NOT_FOUND_ERROR
       THEN [ret |-> NOT_FOUND_ERROR, mode |-> mode, def |-> d,
             uc |-> [uc EXCEPT !.cmnd = NULL], rc |-> rc1, gate |-> gate,
             at |-> "none"]
       ELSE IF failAt = "cmnd_args" /\ args
       THEN [ret |-> NOT_FOUND_ERROR, mode |-> mode, def |-> d,
             uc |-> [uc EXCEPT !.cmnd = cmnd1], rc |-> rc1, gate |-> gate,
             at |-> "cmnd_args"]
       ELSE IF failAt = "strdup" /\ cmnd1 = NULL
       THEN [ret |-> NOT_FOUND_ERROR, mode |-> mode, def |-> d,
             uc |-> [uc EXCEPT !.cmnd = NULL], rc |-> rc1, gate |-> gate,
             at |-> "strdup"]
       ELSE IF failAt = "strdup_sudoedit" /\ edit
       THEN [ret |-> NOT_FOUND_ERROR, mode |-> mode1, def |-> d,
             uc |-> [uc EXCEPT !.cmnd = cmnd2], rc |-> rc1, gate |-> gate,
             at |-> "strdup_sudoedit"]
       ELSE [ret |-> IF ran THEN p.ret ELSE FOUND,
             mode |-> mode1,
             def |-> ApplySources(d, list, "cmnd"),
             uc |-> [uc EXCEPT !.cmnd = IF edit THEN "sudoedit" ELSE cmnd2],
             rc |-> rc1, gate |-> gate, at |-> "none"]
    \* p is what set_cmnd_path returned.
    IN with(set_cmnd_path(stack, cmnd_runchroot(rc.chroot, d.runchroot),
                          search_path(d.secure_path, exempt), o))

SetCmndFailures(used) ==
    IF Spent(used) < MaxDeviations
    THEN {"calloc", "cmnd_args", "strdup", "strdup_sudoedit", "none"}
    ELSE {"none"}

\* A gate that takes the absence of a request for a request.
closefrom_gate_any_request(requested, configured, override) ==
    IF requested # configured
    THEN (IF override THEN requested ELSE -1)
    ELSE configured

\* The closefrom gate: the store's closefrom after it, or -1 for a denial.
closefrom_gate(requested, configured, override) ==
    IF requested >= 0 /\ requested # configured
    THEN (IF override THEN requested ELSE -1)
    ELSE configured

\* A root gate that tests the wrong way round.
root_gate_inverted(uid, root_sudo) == uid = 0 /\ root_sudo

\* The root gate: root may not run sudo.
root_gate(uid, root_sudo) == uid = 0 /\ ~root_sudo

sudoers_check_common ==
    /\ pc = "set_cmnd"
    /\ \E exempt \in BOOLEAN,
          failAt \in SetCmndFailures(faults),
          o \in SetCmndPathOutcomes(faults,
                  cmnd_runchroot(runas_ctx.chroot, def.runchroot)) :
       \E c \in {set_cmnd(permStack, sudo_mode,
                           IF ISSET(sudo_mode, {"MODE_PRESERVE_GROUPS"})
                           THEN [def EXCEPT !.preserve_groups = TRUE] ELSE def,
                           user_ctx, runas_ctx, NewArgv.vec, snl, exempt,
                           failAt, o)} :
        LET ran == failAt # "calloc"
                   /\ ISSET(sudo_mode, {"MODE_RUN", "MODE_EDIT", "MODE_CHECK"})
                   /\ ~ISSET(sudo_mode, {"MODE_EDIT"})
            cf == closefrom_gate(user_ctx.closefrom, c.def.closefrom,
                                 c.def.closefrom_override)
            ret == IF c.ret = NOT_FOUND_ERROR THEN -1
                   ELSE IF root_gate(user_ctx.uid, c.def.root_sudo) THEN 0
                   ELSE IF cf = -1 THEN 0
                   ELSE 1
        IN
        /\ (def.secure_path = NULL \/ ~ran => ~exempt)
        /\ c.at = failAt
        /\ (~ran => o = NoPathOutcome)
        /\ faults' = faults + Cost(failAt = "none") + SetCmndPathCost(o)
        /\ Spent(faults') <= MaxDeviations
        /\ cmnd_status' = c.ret
        /\ sudo_mode' = c.mode
        /\ def' = IF ret = 1 /\ cf # -1 THEN [c.def EXCEPT !.closefrom = cf]
                  ELSE c.def
        /\ user_ctx' = c.uc
        /\ runas_ctx' = c.rc
        /\ permStack' = c.gate.stack
        /\ hist' = [hist EXCEPT
                      !.trace = Append(@, "set_cmnd"),
                      !.modeIn = sudo_mode,
                      !.exempt = exempt,
                      !.status = c.ret,
                      !.stop = IF ret = 1 THEN @
                               ELSE IF c.ret = NOT_FOUND_ERROR THEN "set_cmnd"
                               ELSE IF root_gate(user_ctx.uid, c.def.root_sudo)
                               THEN "root_sudo" ELSE "closefrom",
                      !.closefrom =
                        [reached |-> c.ret # NOT_FOUND_ERROR
                                     /\ ~root_gate(user_ctx.uid,
                                                   c.def.root_sudo),
                         configured |-> c.def.closefrom],
                      !.searches = c.gate.searches,
                      !.pathRet = IF ran THEN c.gate.ret ELSE NULL,
                      !.pivots = c.gate.pivots,
                      !.unpivots = c.gate.unpivots,
                      !.gate = IF ran
                               THEN GateUse("set_cmnd_path", permStack,
                                      c.gate.stack, c.gate.pushed,
                                      c.gate.popped, c.gate.failed)
                               ELSE @]
        /\ loc' = [loc EXCEPT !.ret = IF ret = 1 THEN -1 ELSE ret]
        /\ pc' = IF ret = 1 THEN "lookup" ELSE AfterCommon(fn, ret)
    /\ UNCHANGED <<world, fn, prev_user, unknown_runas_uid, unknown_runas_gid,
                   snl, initRet, need_reinit, nprocVars, argvVars, result,
                   requests, inits, ready,
                   sudoers_error_hook>>

----------------------------------------------------------------------------
\* sudoers_check_common, steps 3 to 7: the rule lookup, the deferred id
\* checks, the implied-shell, tty and shell checks, the environment rebuild.

\* tty_present opens /dev/tty only without job control and without a
\* terminal path.
opens_tty(tcpgid, ttypath) == tcpgid = 0 /\ ttypath = NULL

\* A tty that counts as present only when both the process group and the
\* path are known.
tty_present_needs_both(tcpgid, ttypath, openOk) ==
    IF tcpgid = 0 \/ ttypath = NULL THEN openOk ELSE TRUE

tty_present(tcpgid, ttypath, openOk) ==
    IF opens_tty(tcpgid, ttypath) THEN openOk ELSE TRUE

LookupSteps ==
    << "lookup", "source", "runas_cmnd", "unknown_uid", "unknown_gid",
       "usage", "notty", "shell", "rebuild_env", "none" >>

\* What sudoers_lookup may return: a match or none, and on a deviation an
\* error flag (alone or alongside).
LookupResults(used) ==
    {{"VALIDATE_SUCCESS"}, {"VALIDATE_FAILURE"}}
    \cup (IF Spent(used) < MaxDeviations
          THEN {{"VALIDATE_ERROR"}, {"VALIDATE_SUCCESS", "VALIDATE_ERROR"}}
          ELSE {})

\* A pipeline that does not test the error flag of the lookup.
lookup_error_ignored(validated) == FALSE

\* The lookup failed: it printed the error itself.
lookup_error(validated) == ISSET(validated, {"VALIDATE_ERROR"})

\* Deferred id checks that forget the group.
unknown_id_user_only(unknown_uid, unknown_gid, gr, allow_unknown) ==
    IF unknown_uid /\ ~allow_unknown THEN "unknown_uid" ELSE "none"

\* The deferred id checks: which unknown id, if any, stops the request.
unknown_id(unknown_uid, unknown_gid, gr, allow_unknown) ==
    IF unknown_uid /\ ~allow_unknown THEN "unknown_uid"
    ELSE IF gr # NULL /\ unknown_gid /\ ~allow_unknown THEN "unknown_gid"
    ELSE "none"

\* A usage check that reads shell_noargs the wrong way round.
usage_error_inverted(mode, shell_noargs) ==
    ISSET(mode, {"MODE_IMPLIED_SHELL"}) /\ shell_noargs

\* sudo was run without a command and shell_noargs does not allow that.
usage_error(mode, shell_noargs) ==
    ISSET(mode, {"MODE_IMPLIED_SHELL"}) /\ ~shell_noargs

\* The step at which this part of the pipeline stops, and its result.
\* failAt is the collaborator that fails if it is reached.
lookup_steps(validated, mode, d, uc, rc, unknown_uid, unknown_gid, openOk, failAt) ==
    IF lookup_error(validated) THEN [at |-> "lookup", ret |-> -1]
    ELSE IF failAt = "source" /\ ISSET(validated, {"VALIDATE_SUCCESS"})
    THEN [at |-> "source", ret |-> -1]
    ELSE IF failAt = "runas_cmnd" THEN [at |-> "runas_cmnd", ret |-> -1]
    ELSE IF unknown_id(unknown_uid, unknown_gid, rc.gr,
                       d.runas_allow_unknown_id) # "none"
    THEN [at |-> unknown_id(unknown_uid, unknown_gid, rc.gr,
                            d.runas_allow_unknown_id), ret |-> -1]
    ELSE IF usage_error(mode, d.shell_noargs)
    THEN [at |-> "usage", ret |-> -2]
    ELSE IF d.requiretty /\ ~tty_present(uc.tcpgid, uc.ttypath, openOk)
    THEN [at |-> "notty", ret |-> 0]
    ELSE IF failAt = "shell" /\ ISSET(mode, {"MODE_RUN", "MODE_CHECK"})
    THEN [at |-> "shell", ret |-> 0]
    ELSE IF failAt = "rebuild_env" THEN [at |-> "rebuild_env", ret |-> 0]
    ELSE [at |-> "none", ret |-> 1]

LookupFailures(used) ==
    IF Spent(used) < MaxDeviations
    THEN {"source", "runas_cmnd", "shell", "rebuild_env", "none"}
    ELSE {"none"}

\* An environment kept for every -E request, with or without setenv.
keep_env_any(mode, setenv) ==
    ISSET(mode, {"MODE_EDIT"}) \/ ISSET(mode, {"MODE_PRESERVE_ENV"})

\* The environment is not reset for sudoedit, nor for -E when the user has
\* the setenv privilege.
keep_env(mode, setenv) ==
    ISSET(mode, {"MODE_EDIT"})
    \/ (ISSET(mode, {"MODE_PRESERVE_ENV"}) /\ setenv)

\* A rule lookup for the user the front end named.
lookup_pw_invoker(uc) == "invoker"

\* The passwd entry handed to sudoers_lookup.
lookup_pw(uc) == uc.pw

\* The passwd entry check_user authenticates.
check_user_pw(uc) == uc.pw

sudoers_check_common_lookup ==
    /\ pc = "lookup"
    /\ \E validated \in LookupResults(faults), status \in FindResults,
          openOk \in BOOLEAN :
       \E failAt \in LookupFailures(faults
                        + Cost(~ISSET(validated, {"VALIDATE_ERROR"}))
                        + Cost(status = cmnd_status)) :
        LET r == lookup_steps(validated, sudo_mode, def, user_ctx, runas_ctx,
                              unknown_runas_uid, unknown_runas_gid, openOk,
                              failAt)
            past(step) == Pos(LookupSteps, step) < Pos(LookupSteps, r.at)
        IN
        /\ status # NOT_FOUND_ERROR
        /\ (failAt # "none" => r.at = failAt)
        /\ (openOk \/ r.at = "notty")
        /\ faults' = faults + Cost(~ISSET(validated, {"VALIDATE_ERROR"}))
                        + Cost(status = cmnd_status) + Cost(failAt = "none")
        /\ Spent(faults') <= MaxDeviations
        /\ cmnd_status' = status
        /\ user_ctx' = IF ISSET(validated, {"VALIDATE_SUCCESS"}) /\ past("lookup")
                       THEN [user_ctx EXCEPT !.source =
                               IF r.at = "source" THEN NULL ELSE "sudoers:1:1"]
                       ELSE user_ctx
        /\ runas_ctx' = IF past("runas_cmnd")
                        THEN [runas_ctx EXCEPT !.cmnd = user_ctx.cmnd]
                        ELSE runas_ctx
        /\ def' = IF past("shell") /\ keep_env(sudo_mode, def.setenv)
                  THEN [def EXCEPT !.env_reset = FALSE] ELSE def
        /\ hist' = [hist EXCEPT
                      !.validated = validated,
                      !.stop = r.at,
                      !.lookupPw = {lookup_pw(user_ctx)},
                      !.tty = IF past("usage") /\ def.requiretty
                              THEN [checked |-> TRUE,
                                    opened |-> opens_tty(user_ctx.tcpgid,
                                                         user_ctx.ttypath),
                                    openOk |-> openOk,
                                    present |-> r.at # "notty"]
                              ELSE NoTtyCheck,
                      !.trace =
                      @ \o <<"lookup">>
                        \o (IF past("shell") THEN <<"rebuild_env">> ELSE <<>>)]
        /\ loc' = [loc EXCEPT !.validated = validated,
                              !.env = IF r.ret = 1 THEN {"rebuilt"} ELSE @,
                              !.ret = IF r.ret = 1 THEN -1 ELSE r.ret]
        /\ pc' = IF r.ret = 1 THEN "check_user" ELSE AfterCommon(fn, r.ret)
    /\ UNCHANGED <<world, fn, sudo_mode, prev_user, unknown_runas_uid,
                   unknown_runas_gid, snl, initRet, need_reinit, permStack,
                   nprocVars, argvVars, result, requests, inits, ready,
                   sudoers_error_hook>>

----------------------------------------------------------------------------
\* sudoers_check_common, steps 8 to 11: authentication, the chroot and cwd
\* checks, the SUDO_USER rebinding, the final denial checks.

AuthSteps ==
    << "check_user", "log_denial", "rejected", "runchroot", "runcwd",
       "log_failure", "no_match", "admin_flag", "dot", "not_found", "timeout",
       "preserve_env", "env_vars", "none" >>

\* A final check that only tests for a command that was not found.
status_denied_not_found_only(status) ==
    IF status = NOT_FOUND THEN "not_found" ELSE "none"

\* The command was not found, or only in the current directory.
status_denied(status) ==
    IF status = NOT_FOUND_DOT THEN "dot"
    ELSE IF status = NOT_FOUND THEN "not_found" ELSE "none"

\* check_user_runchroot and check_user_runcwd: an override is refused only
\* when one was asked for; either check may fail.
check_user_runchroot(rc, failAt) ==
    IF failAt = "runchroot_deny" /\ rc.chroot # NULL THEN 0
    ELSE IF failAt = "runchroot_error" THEN -1 ELSE 1

check_user_runcwd(rc, failAt) ==
    IF failAt = "runcwd_deny" /\ rc.cwd # NULL THEN 0
    ELSE IF failAt = "runcwd_error" THEN -1 ELSE 1

\* A denial logged for every authentication that did not succeed.
logs_denial_unless_ok(auth, validated) ==
    auth # 1 /\ ~ISSET(validated, {"VALIDATE_SUCCESS"})

\* log_denial is called for a rejected authentication, and only when no
\* rule matched (no password was read).
logs_denial(auth, validated) ==
    auth = 0 /\ ~ISSET(validated, {"VALIDATE_SUCCESS"})

\* A switch that goes on for every result but false.
override_check_no_error(r) == IF r = 0 THEN 0 ELSE 1

\* The switch on the result of an override check: what the pipeline does
\* next, 1 to go on, 0 for bad, -1 for done.
override_check(r) == IF r = 1 THEN 1 ELSE IF r = 0 THEN 0 ELSE -1

\* The step at which the rest of the pipeline stops, and its result.  auth
\* is what check_user returned; failAt is the collaborator that fails (or,
\* for the chroot and cwd checks, denies or errs) if it is reached.
auth_steps(auth, validated, status, mode, d, uc, rc, failAt) ==
    IF logs_denial(auth, validated) /\ failAt = "log_denial"
    THEN [at |-> "log_denial", ret |-> -1]
    ELSE IF auth = -1 THEN [at |-> "check_user", ret |-> -1]
    ELSE IF auth = 0 THEN [at |-> "rejected", ret |-> 0]
    ELSE IF override_check(check_user_runchroot(rc, failAt)) # 1
    THEN [at |-> "runchroot",
          ret |-> override_check(check_user_runchroot(rc, failAt))]
    ELSE IF override_check(check_user_runcwd(rc, failAt)) # 1
    THEN [at |-> "runcwd",
          ret |-> override_check(check_user_runcwd(rc, failAt))]
    ELSE IF ~ISSET(validated, {"VALIDATE_SUCCESS"})
    THEN (IF failAt = "log_failure" THEN [at |-> "log_failure", ret |-> -1]
          ELSE [at |-> "no_match", ret |-> 0])
    ELSE IF failAt = "admin_flag" THEN [at |-> "admin_flag", ret |-> -1]
    ELSE IF status_denied(status) # "none"
    THEN [at |-> status_denied(status), ret |-> 0]
    ELSE IF ~d.user_command_timeouts /\ uc.timeout > 0
    THEN [at |-> "timeout", ret |-> 0]
    ELSE IF ISSET(mode, {"MODE_RUN"}) /\ ~d.setenv
            /\ ISSET(mode, {"MODE_PRESERVE_ENV"})
    THEN [at |-> "preserve_env", ret |-> 0]
    ELSE IF ISSET(mode, {"MODE_RUN"}) /\ ~d.setenv /\ uc.env_vars
            /\ failAt = "env_vars"
    THEN [at |-> "env_vars", ret |-> 0]
    ELSE [at |-> "none", ret |-> 1]

\* The failure each value of failAt stops at.
AuthFailureStep(failAt) ==
    CASE failAt \in {"runchroot_deny", "runchroot_error"} -> "runchroot"
      [] failAt \in {"runcwd_deny", "runcwd_error"} -> "runcwd"
      [] OTHER -> failAt

AuthFailures(used) ==
    IF Spent(used) < MaxDeviations
    THEN {"log_denial", "runchroot_deny", "runchroot_error", "runcwd_deny",
          "runcwd_error", "log_failure", "admin_flag", "env_vars", "none"}
    ELSE {"none"}

\* A rebinding that does not look at the invoking uid.
rebind_user_any_uid(mode, uid, prev, pw, resolves) ==
    IF ISSET(mode, {"MODE_RUN", "MODE_EDIT"}) /\ prev # NULL
       /\ prev # "root" /\ resolves
    THEN [pw |-> prev, bound |-> TRUE,
          delref |-> IF pw # NULL THEN <<pw>> ELSE <<>>]
    ELSE [pw |-> pw, bound |-> FALSE, delref |-> <<>>]

\* The SUDO_USER rebinding: the invoking-user entry after it, whether it
\* was assigned, and the entries sudo_pw_delref was called on.
rebind_user(mode, uid, prev, pw, resolves) ==
    IF ISSET(mode, {"MODE_RUN", "MODE_EDIT"}) /\ prev # NULL /\ uid = 0
       /\ prev # "root" /\ resolves
    THEN [pw |-> prev, bound |-> TRUE,
          delref |-> IF pw # NULL THEN <<pw>> ELSE <<>>]
    ELSE [pw |-> pw, bound |-> FALSE, delref |-> <<>>]


sudoers_check_common_check_user ==
    /\ pc = "check_user"
    /\ \E auth \in {1} \cup (IF Spent(faults) < MaxDeviations THEN {0, -1}
                                ELSE {}),
          resolves \in BOOLEAN :
       \E failAt \in AuthFailures(faults + Cost(auth = 1)) :
        LET r == auth_steps(auth, loc.validated, cmnd_status, sudo_mode, def,
                            user_ctx, runas_ctx, failAt)
            past(step) == Pos(AuthSteps, step) < Pos(AuthSteps, r.at)
            rebinds == ISSET(sudo_mode, {"MODE_RUN", "MODE_EDIT"})
                       /\ prev_user # NULL /\ user_ctx.uid = 0
                       /\ prev_user # "root"
            b == rebind_user(sudo_mode, user_ctx.uid, prev_user, user_ctx.pw,
                             resolves)
        IN
        /\ (failAt # "none" =>
                \/ /\ r.at = AuthFailureStep(failAt)
                   /\ (r.at \in {"runchroot", "runcwd"} =>
                         (r.ret = -1) = (failAt \in
                            {"runchroot_error", "runcwd_error"}))
                \/ /\ failAt \in {"runchroot_error", "runcwd_error"}
                   /\ past(AuthFailureStep(failAt)))
        /\ (~(rebinds /\ past("runcwd")) => resolves)
        /\ faults' = faults + Cost(auth = 1) + Cost(failAt = "none")
        /\ user_ctx' = IF past("runcwd") THEN [user_ctx EXCEPT !.pw = b.pw]
                       ELSE user_ctx
        /\ hist' = [hist EXCEPT
                      !.stop = r.at,
                      !.auth = {auth},
                      !.authPw = {check_user_pw(user_ctx)},
                      !.boundPw = IF past("runcwd") /\ b.bound THEN b.pw ELSE @,
                      !.rebind = IF past("runcwd")
                                 THEN [reached |-> TRUE,
                                       resolves |-> resolves,
                                       old |-> user_ctx.pw,
                                       bound |-> b.bound,
                                       delref |-> b.delref]
                                 ELSE NoRebind,
                      !.denial = IF logs_denial(auth, loc.validated)
                                 THEN {failAt # "log_denial"} ELSE {},
                      !.chroot = IF past("rejected")
                                 THEN {check_user_runchroot(runas_ctx, failAt)}
                                 ELSE {},
                      !.cwd = IF past("runchroot")
                              THEN {check_user_runcwd(runas_ctx, failAt)}
                              ELSE {},
                      !.trace =
                      @ \o <<"check_user">>
                        \o (IF logs_denial(auth, loc.validated)
                            THEN <<"log_denial">> ELSE <<>>)
                        \o (IF past("rejected") THEN <<"runchroot">> ELSE <<>>)
                        \o (IF past("runchroot") THEN <<"runcwd">> ELSE <<>>)
                        \o (IF past("runcwd") /\ b.bound
                            THEN <<"rebind">> ELSE <<>>)
                        \o (IF past("runcwd")
                               /\ ~ISSET(loc.validated, {"VALIDATE_SUCCESS"})
                            THEN <<"log_failure">> ELSE <<>>)
                        \o (IF past("no_match") THEN <<"admin_flag">>
                            ELSE <<>>)]
        /\ loc' = [loc EXCEPT !.ret = r.ret]
        /\ pc' = AfterCommon(fn, r.ret)
    /\ UNCHANGED <<world, fn, sudo_mode, def, runas_ctx, prev_user,
                   unknown_runas_uid, unknown_runas_gid, cmnd_status, snl,
                   initRet, need_reinit, permStack, nprocVars, argvVars,
                   result, requests, inits, ready,
                   sudoers_error_hook>>

----------------------------------------------------------------------------
\* sudoers_check_cmnd after the entry: the PERM_INITIAL push and the copy of
\* argv.

PwShell == "/bin/bash"

\* An argv copy without the spare slot.
argv_slots_no_spare(argc) == argc + 1

\* The slots asked of reallocarray for the copy of argv.
argv_slots(argc) == argc + 2

\* The argv copy slot by slot: the argc it was made from, NewArgc, the
\* number of slots, their contents and the indices stored to.
NewBuf(argc) ==
    [ given |-> argc, argc |-> argc, slots |-> argv_slots(argc),
      mem |-> [i \in 0..(argv_slots(argc) - 1) |-> "unset"], written |-> {} ]

\* A store to NewArgv[i]; a store past the last slot lands outside the
\* buffer.
Store(buf, i, v) ==
    [buf EXCEPT !.mem = IF i \in DOMAIN @ THEN [@ EXCEPT ![i] = v] ELSE @,
                !.written = @ \cup {i}]

RECURSIVE StoreAll(_, _, _)
StoreAll(buf, at, vals) ==
    IF vals = <<>> THEN buf
    ELSE StoreAll(Store(buf, at, Head(vals)), at + 1, Tail(vals))

Load(buf, i) == IF i \in DOMAIN buf.mem THEN buf.mem[i] ELSE "unset"

\* memcpy of argv, the terminator at NewArgv[NewArgc], and pw_shell in
\* NewArgv[0] for a login shell.
argv_copy(argv, shell) ==
    LET b == Store(StoreAll(NewBuf(Len(argv)), 0, argv), Len(argv), NULL)
    IN IF shell # NULL THEN Store(b, 0, shell) ELSE b

----------------------------------------------------------------------------
\* sudoers_check_cmnd after an allow from the pipeline: the I/O-log path, the
\* umask, the login-shell argv, the env files and variables, the editor, the
\* saved command.

\* The umask handed back: the bitwise OR of two modes, computed by bits.
RECURSIVE BitOr(_, _)
BitOr(a, b) ==
    IF a = 0 THEN b ELSE IF b = 0 THEN a
    ELSE (IF a % 2 = 1 \/ b % 2 = 1 THEN 1 ELSE 0)
         + 2 * BitOr(a \div 2, b \div 2)

\* A umask that takes the user's bits only with umask_override.
cmnd_umask_override_inverted(def_umask, override, user_umask) ==
    IF def_umask = ACCESSPERMS THEN ACCESSPERMS
    ELSE IF ~override THEN def_umask
    ELSE BitOr(def_umask, user_umask)

cmnd_umask(def_umask, override, user_umask) ==
    IF def_umask = ACCESSPERMS THEN ACCESSPERMS
    ELSE IF override THEN def_umask
    ELSE BitOr(def_umask, user_umask)

\* argv[0] of a login shell: from the last '/' on, with a '-' written over
\* that character (over the first one when there is no '/').
login_argv0(arg) ==
    CASE arg = "/bin/bash" -> "-bash"
      [] arg = "/bin/sh" -> "-sh"
      [] arg = "bash" -> "-ash"
      [] arg = "ls" -> "-s"
      [] arg = "sudoedit" -> "-udoedit"
      [] OTHER -> "-"

\* A reshape that adds --login for every shell, not only for bash.
login_argv_any_shell(vec) ==
    LET v == [vec EXCEPT ![1] = login_argv0(vec[1])]
    IN IF Len(v) > 1 /\ v[2] = "-c"
       THEN <<v[1], "--login">> \o Tail(v) ELSE v

\* The login-shell reshape of the argument vector.
login_argv(vec) ==
    LET v == [vec EXCEPT ![1] = login_argv0(vec[1])]
    IN IF Len(v) > 1 /\ v[1] = "-bash" /\ v[2] = "-c"
       THEN <<v[1], "--login">> \o Tail(v) ELSE v

\* memmove of NewArgc pointers from NewArgv[1] to NewArgv[2], --login in
\* NewArgv[1], NewArgc++.
login_insert(buf) ==
    LET moved == [k \in 1..buf.argc |-> Load(buf, k)]
        b == Store(StoreAll(buf, 2, moved), 1, "--login")
    IN [b EXCEPT !.argc = @ + 1]

\* The login-shell reshape, slot by slot.
login_buf(buf) ==
    LET b == Store(buf, 0, login_argv0(Load(buf, 0)))
    IN IF b.argc > 1 /\ Load(b, 0) = "-bash" /\ Load(b, 1) = "-c"
       THEN login_insert(b) ELSE b

CheckSetupFailures(used) ==
    IF Spent(used) < MaxDeviations
    THEN {"set_perms", "reallocarray", "strdup", "none"} ELSE {"none"}

\* A free of the old vector whether or not it is the saved one.
argv_freed_always(ptr, saved) == IF ptr # 0 THEN {ptr} ELSE {}

\* The vectors freed when NewArgv is replaced: the old one, unless it is
\* NULL or the vector saved_argv points to.
argv_freed(ptr, saved) == IF ptr # 0 /\ ptr # saved THEN {ptr} ELSE {}

sudoers_check_cmnd_setup ==
    /\ pc = "check_setup"
    /\ \E failAt \in CheckSetupFailures(faults) :
        LET login == ISSET(sudo_mode, {"MODE_LOGIN_SHELL"})
                     /\ runas_ctx.pw # NULL
            vec == IF login /\ failAt # "strdup"
                   THEN [loc.argv EXCEPT ![1] = runas_ctx.shell]
                   ELSE loc.argv
        IN
        /\ (failAt = "strdup" => login)
        /\ faults' = faults + Cost(failAt = "none")
        /\ permStack' = IF failAt = "set_perms" THEN permStack
                        ELSE set_perms(permStack, PERM_INITIAL)
        /\ user_ctx' = IF failAt # "set_perms" /\ loc.env_add
                       THEN [user_ctx EXCEPT !.env_vars = TRUE] ELSE user_ctx
        /\ NewArgv' = IF failAt = "set_perms" THEN NewArgv
                      ELSE IF failAt = "reallocarray"
                      THEN [ptr |-> 0, vec |-> <<>>]
                      ELSE [ptr |-> requests, vec |-> vec]
        /\ hist' = [hist EXCEPT
                      !.trace = Append(@, "set_perms"),
                      !.stop = failAt,
                      !.freed = IF failAt = "set_perms" THEN @
                                ELSE @ \cup argv_freed(NewArgv.ptr,
                                                        saved_argv),
                      !.buf = IF failAt = "none"
                              THEN argv_copy(loc.argv,
                                             IF login THEN runas_ctx.shell
                                             ELSE NULL)
                              ELSE @,
                      !.argv = IF failAt = "none" THEN vec ELSE @]
        /\ loc' = [loc EXCEPT !.ret = IF failAt = "set_perms" THEN 0 ELSE -1]
        /\ pc' = IF failAt = "none" THEN "set_cmnd" ELSE "check_done"
    /\ UNCHANGED <<world, fn, sudo_mode, def, runas_ctx, prev_user,
                   unknown_runas_uid, unknown_runas_gid, cmnd_status, snl,
                   initRet, need_reinit, nprocVars, saved_argv, result,
                   requests, inits, ready,
                   sudoers_error_hook>>

\* An allow-side failure that leaves by the deny label instead of the error
\* label.
allow_ret_bad(at) == IF at = "none" THEN 1 ELSE 0

\* The result of the allow side: true at its end, -1 from the error label.
allow_ret(at) == IF at = "none" THEN 1 ELSE -1

\* The seven I/O-log defaults.
LogDefaults ==
    { "log_input", "log_output", "log_stdin", "log_stdout", "log_stderr",
      "log_ttyin", "log_ttyout" }

\* A switch-off that leaves the output logging on.
disable_iolog_input_only(d) ==
    [d EXCEPT !.log_io = @ \ {"log_input", "log_stdin", "log_ttyin"}]

\* I/O logging switched off after a failed expansion of the log path.
disable_iolog(d) == [d EXCEPT !.log_io = @ \ LogDefaults]

AllowSteps == <<"iolog", "insert_env_vars", "find_editor", "strdup", "none">>

\* The expansion of the I/O-log path may fail whenever it is tried.
AllowFailures(used) ==
    {"iolog", "iolog_ignored", "none"}
    \cup (IF Spent(used) < MaxDeviations
          THEN {"insert_env_vars", "find_editor", "strdup"} ELSE {})

AllowCost(failAt) ==
    IF failAt \in {"iolog", "iolog_ignored", "none"} THEN 0 ELSE 1

sudoers_check_cmnd_allow ==
    /\ pc = "check_allow"
    /\ \E failAt \in AllowFailures(faults) :
        LET iolog == def.log_io # {} /\ def.iolog_templates
            edit == ISSET(sudo_mode, {"MODE_EDIT"})
            save == user_ctx.cmnd_saved = NULL
            at == IF failAt = "iolog_ignored" THEN "none"
                  ELSE IF failAt = "iolog" THEN "iolog" ELSE failAt
            past(step) == Pos(AllowSteps, step) < Pos(AllowSteps, at)
            vec1 == IF past("iolog") /\ ISSET(sudo_mode, {"MODE_LOGIN_SHELL"})
                    THEN login_argv(NewArgv.vec) ELSE NewArgv.vec
            argv1 == IF past("find_editor") /\ edit
                     THEN [ptr |-> MaxRequests + requests,
                           vec |-> <<"vi", "--">> \o Tail(vec1)]
                     ELSE [NewArgv EXCEPT !.vec = vec1]
            rcmnd == IF edit /\ past("insert_env_vars")
                     THEN (IF at = "find_editor" THEN NULL ELSE "/usr/bin/vi")
                     ELSE runas_ctx.cmnd
        IN
        /\ (failAt \in {"iolog", "iolog_ignored"} =>
                iolog /\ (failAt = "iolog_ignored") = def.ignore_iolog_errors)
        /\ (failAt = "find_editor" => edit)
        /\ (failAt = "strdup" => save)
        /\ faults' = faults + AllowCost(failAt)
        /\ def' = IF failAt = "iolog_ignored" THEN disable_iolog(def)
                  ELSE def
        /\ NewArgv' = argv1
        /\ runas_ctx' = [runas_ctx EXCEPT !.cmnd = rcmnd]
        /\ user_ctx' = IF at = "none" /\ save
                       THEN [user_ctx EXCEPT !.cmnd_saved = rcmnd] ELSE user_ctx
        /\ saved_argv' = IF at = "none" /\ save THEN argv1.ptr ELSE saved_argv
        /\ loc' = [loc EXCEPT
              !.ret = allow_ret(at),
              !.iolog_path = IF iolog /\ failAt \notin {"iolog", "iolog_ignored"}
                             THEN "/var/log/sudo-io/000001" ELSE NULL,
              !.cmnd_umask = IF past("iolog")
                             THEN cmnd_umask(def.umask, def.umask_override,
                                             user_ctx.umask)
                             ELSE @,
              !.env = IF ~past("iolog") THEN @
                      ELSE IF edit /\ past("find_editor") THEN {"old"}
                      ELSE @ \cup (IF def.restricted_env_file # NULL
                                   THEN {"restricted_env_file"} ELSE {})
                             \cup (IF def.env_file # NULL THEN {"env_file"}
                                   ELSE {})
                             \cup (IF past("insert_env_vars")
                                      /\ user_ctx.env_vars
                                   THEN {"env_vars"} ELSE {})]
        /\ hist' = [hist EXCEPT !.trace = Append(@, "allow"),
                                !.freed = IF past("find_editor") /\ edit
                                          THEN @ \cup argv_freed(NewArgv.ptr,
                                                                  saved_argv)
                                          ELSE @,
                                !.iolog = IF iolog
                                          THEN {failAt \notin
                                                  {"iolog", "iolog_ignored"}}
                                          ELSE {},
                                !.buf = IF past("iolog")
                                           /\ ISSET(sudo_mode,
                                                    {"MODE_LOGIN_SHELL"})
                                        THEN login_buf(@) ELSE @,
                                !.stop = IF at = "none" THEN "none" ELSE failAt]
        /\ pc' = "check_done"
    /\ UNCHANGED <<world, fn, sudo_mode, prev_user, unknown_runas_uid,
                   unknown_runas_gid, cmnd_status, snl, initRet, need_reinit,
                   permStack, nprocVars, result, requests, inits, ready,
                   sudoers_error_hook>>

----------------------------------------------------------------------------
\* Teardown, shared by the three request entry points: rewind_perms, then
\* restore_nproc, then the return to the front-end.

\* The stacks rewind_perms may leave, each with whether it succeeded.
RewindOutcomes(stack, used) ==
    {[ok |-> TRUE, stack |-> rewind_perms(stack)]}
    \cup (IF Spent(used) < MaxDeviations
          THEN {[ok |-> FALSE, stack |-> s] : s \in RewindLeftovers(stack)}
          ELSE {})

\* A teardown that forgets the result of rewind_perms.
teardown_ret_unchecked(ret, rewound) == ret

\* The return value after the rewind.
teardown_ret(ret, rewound) == IF rewound THEN ret ELSE -1

Teardown(f, ret, stored, used, store) ==
    \E rw \in RewindOutcomes(permStack, used) :
    \E setOk \in Outcomes(used + Cost(rw.ok)) :
        /\ permStack' = rw.stack
        /\ rlimit' = restore_nproc(rlimit, nproclimit, setOk)
        /\ faults' = used + Cost(rw.ok) + Cost(setOk)
        /\ result' = [fn |-> f, ret |-> teardown_ret(ret, rw.ok),
                      stored |-> stored]
        /\ hist' = [hist EXCEPT !.trace = @ \o <<"rewind_perms", "restore_nproc">>,
                                !.rewind = IF rw.ok THEN "ok" ELSE "failed",
                                !.store = store,
                                !.restores = @ + 1,
                                !.restoreOk = setOk]
        /\ pc' = "idle"
        /\ fn' = "none"
        /\ loc' = NoLoc

\* A teardown that hands back allow and deny only.
stores_result_decisions(ret) == ret \in {0, 1}

\* sudoers_policy_store_result is called unless the result is -1.
stores_result(ret) == ret # -1

\* A teardown that forgets the result of sudoers_policy_store_result.
store_ret_unchecked(ret, stores, storeOk) == ret

\* The result after the store: -1 when the store was tried and failed.
store_ret(ret, stores, storeOk) == IF stores /\ ~storeOk THEN -1 ELSE ret

sudoers_check_cmnd_done ==
    /\ pc = "check_done"
    /\ \E storeOk \in Outcomes(faults) :
        LET stores == stores_result(loc.ret)
            ret == store_ret(loc.ret, stores, storeOk)
        IN
        /\ (~stores => storeOk)
        /\ Teardown("check", ret,
                    IF stores /\ storeOk
                    THEN store_result(loc.ret, NewArgv.vec, loc.env,
                                      loc.cmnd_umask, loc.iolog_path)
                    ELSE NoRecord,
                    faults + Cost(storeOk),
                    [pending |-> loc.ret, called |-> stores, ok |-> storeOk])
    /\ UNCHANGED <<world, sudo_mode, def, ctxVars, cmnd_status, snl, initRet,
                   need_reinit, nproclimit, argvVars, requests, inits, ready,
                   sudoers_error_hook>>

----------------------------------------------------------------------------
\* sudoers_validate_user

\* The entry of validate and list: the raise of RLIMIT_NPROC, the
\* PERM_INITIAL push, then the argument vector; stop names what failed.
RequestEntry(f, stop, vec, n) ==
    LET u == unlimit_nproc(rlimit, nproclimit, n.get, n.inf, n.max)
    IN
    /\ requests' = requests + 1
    /\ rlimit' = u.rlimit
    /\ nproclimit' = u.nproclimit
    /\ permStack' = IF stop = "set_perms" THEN permStack
                    ELSE set_perms(permStack, PERM_INITIAL)
    /\ NewArgv' = IF stop \in {"set_perms", "getpwnam"} THEN NewArgv
                  ELSE IF stop = "reallocarray" THEN [ptr |-> 0, vec |-> <<>>]
                  ELSE [ptr |-> requests + 1, vec |-> vec]
    /\ hist' = [NoHist EXCEPT !.initDef = hist.initDef,
                              !.initDone = hist.initDone,
                              !.firstRet = hist.firstRet,
                              !.checks = hist.checks,
                              !.entryPw = user_ctx.pw,
                              !.boundPw = hist.boundPw,
                              !.entryBound = hist.boundPw,
                              !.freed = hist.freed,
                              !.dirty = (def # hist.initDef),
                              !.entryStack = permStack,
                              !.entryRlimit = rlimit,
                              !.unlimits = 1,
                              !.getOk = n.get,
                              !.infOk = n.inf,
                              !.stop = stop,
                              !.trace = <<"unlimit_nproc", "set_perms">>]
    /\ fn' = f
    /\ pc' = IF stop = "none" THEN "set_cmnd" ELSE AfterCommon(f, -1)

sudoers_validate_user ==
    /\ pc = "idle"
    /\ ready
    /\ requests < MaxRequests
    /\ ~ISSET(sudo_mode, {"MODE_CHECK"})
    /\ \E n \in NprocOutcomes(faults) :
       \E stop \in IF Spent(faults + Cost(n.get) + Cost(n.inf)
                            + Cost(Asked(sudo_mode) = "validate"))
                      < MaxDeviations
                   THEN {"set_perms", "reallocarray", "none"} ELSE {"none"} :
        /\ Spent(faults) + Cost(n.get) + Cost(n.inf)
              + Cost(Asked(sudo_mode) = "validate") <= MaxDeviations
        /\ RequestEntry("validate", stop, <<"validate">>, n)
        /\ faults' = faults + Cost(n.get) + Cost(n.inf) + Cost(stop = "none")
                        + Cost(Asked(sudo_mode) = "validate")
        /\ loc' = [NoLoc EXCEPT !.pwflag = "I_VERIFYPW"]
    /\ UNCHANGED <<world, sudo_mode, def, ctxVars, cmnd_status, snl, initRet,
                   need_reinit, saved_argv, result, inits, ready,
                   sudoers_error_hook>>

sudoers_validate_user_done ==
    /\ pc = "validate_done"
    /\ Teardown("validate", loc.ret, NoRecord, faults, NoStore)
    /\ UNCHANGED <<world, sudo_mode, def, ctxVars, cmnd_status, snl, initRet,
                   need_reinit, nproclimit, argvVars, requests, inits, ready,
                   sudoers_error_hook>>

----------------------------------------------------------------------------
\* sudoers_list

\* The argument vectors the front-end passes to the list entry point.
ListArgvs == { <<>>, <<"ls">> }

sudoers_list ==
    /\ pc = "idle"
    /\ ready
    /\ requests < MaxRequests
    /\ \E argv \in ListArgvs, list_user \in {NULL, "bob"},
          n \in NprocOutcomes(faults) :
       \E stop \in IF Spent(faults + Cost(n.get) + Cost(n.inf)
                            + Cost(list_user = NULL)
                            + Cost(Asked(sudo_mode) = "list")) < MaxDeviations
                   THEN {"set_perms", "getpwnam", "reallocarray", "none"}
                   ELSE {"none"} :
        /\ ISSET(sudo_mode, {"MODE_CHECK"}) = (argv # <<>>)
        /\ (stop = "getpwnam" => list_user # NULL)
        /\ Spent(faults) + Cost(n.get) + Cost(n.inf) + Cost(list_user = NULL)
              + Cost(Asked(sudo_mode) = "list") <= MaxDeviations
        /\ RequestEntry("list", stop, <<"list">> \o argv, n)
        /\ faults' = faults + Cost(n.get) + Cost(n.inf)
                        + Cost(list_user = NULL) + Cost(stop = "none")
                        + Cost(Asked(sudo_mode) = "list")
        /\ loc' = [NoLoc EXCEPT !.pwflag = "I_LISTPW",
                     !.list_user = IF stop \in {"set_perms", "getpwnam"}
                                   THEN NULL ELSE list_user]
    /\ UNCHANGED <<world, sudo_mode, def, ctxVars, cmnd_status, snl, initRet,
                   need_reinit, saved_argv, result, inits, ready,
                   sudoers_error_hook>>

\* After the pipeline: display_cmnd or display_privs on an allow, then the
\* teardown.
sudoers_list_done ==
    /\ pc = "list_done"
    /\ \E display \in {1, 0} \cup (IF Spent(faults) < MaxDeviations THEN {-1}
                                   ELSE {}) :
        /\ (loc.ret # 1 => display = 1)
        /\ Teardown("list", IF loc.ret = 1 THEN display ELSE loc.ret,
                    NoRecord, faults + Cost(display # -1),
                    NoStore)
    /\ UNCHANGED <<world, sudo_mode, def, ctxVars, cmnd_status, snl, initRet,
                   need_reinit, nproclimit, argvVars, requests, inits, ready,
                   sudoers_error_hook>>

----------------------------------------------------------------------------
\* sudoers_cleanup

sudoers_cleanup ==
    /\ pc = "idle"
    /\ snl # NULL \/ user_ctx # NoUserCtx
    /\ snl' = NULL
    /\ need_reinit' = FALSE
    /\ user_ctx' = NoUserCtx
    /\ runas_ctx' = NoRunasCtx
    /\ saved_argv' = 0
    /\ NewArgv' = [ptr |-> 0, vec |-> <<>>]
    /\ prev_user' = NULL
    /\ ready' = FALSE
    /\ UNCHANGED sudoers_error_hook
    /\ hist' = [hist EXCEPT !.checks = 0, !.boundPw = NULL, !.freed = {}]
    /\ result' = [fn |-> "cleanup", ret |-> 0, stored |-> NoRecord]
    /\ UNCHANGED <<world, pc, fn, sudo_mode, def, unknown_runas_uid,
                   unknown_runas_gid, cmnd_status, initRet, permStack,
                   nprocVars, loc, faults, requests, inits>>

Next ==
    \/ sudoers_init
    \/ sudoers_init_again
    \/ sudoers_init_source
    \/ sudoers_init_done
    \/ sudoers_check_cmnd
    \/ sudoers_check_cmnd_setup
    \/ sudoers_check_common
    \/ sudoers_check_common_lookup
    \/ sudoers_check_common_check_user
    \/ sudoers_check_cmnd_allow
    \/ sudoers_check_cmnd_done
    \/ sudoers_validate_user
    \/ sudoers_validate_user_done
    \/ sudoers_list
    \/ sudoers_list_done
    \/ sudoers_cleanup

Spec == Init /\ [][Next]_vars

----------------------------------------------------------------------------
\* Properties.

Requests == {"check", "validate", "list"}

\* A request entry point has returned and nothing was called since.
Returned == pc = "idle" /\ result.fn \in Requests

\* A request is running or has just returned: hist describes it.
Current == fn \in Requests \/ Returned

\* The step e was taken in the request hist describes.
Did(e) == \E i \in DOMAIN hist.trace : hist.trace[i] = e

\* C1, as stated: for every request entry point and on every exit path the
\* identity of the process on return is the identity it had on entry.
C1_IdentityRestored ==
    Returned => Identity(permStack) = Identity(hist.entryStack)

\* C1, amended: an entry point that returns before the PERM_INITIAL push
\* leaves the stack as it was; once the push was attempted rewind_perms runs
\* before the return; when the rewind succeeds the process is back at
\* INITIAL, and when it fails the entry point returns -1.
C1_RewindOrError ==
    Returned =>
        /\ (~Did("set_perms") => hist.rewind = "none"
                                 /\ permStack = hist.entryStack)
        /\ (Did("set_perms") => hist.rewind # "none")
        /\ (hist.rewind = "ok" => Identity(permStack) = PERM_INITIAL)
        /\ (hist.rewind = "failed" => result.ret = -1)

\* A check whose search left PERM_RUNAS behind and whose rewind then failed.
C1_Witness ==
    /\ Returned
    /\ result.fn = "check"
    /\ hist.rewind = "failed"
    /\ Identity(permStack) = PERM_RUNAS
    /\ result.ret = -1

\* C2: in any sequence of calls, RLIMIT_NPROC when a request entry point
\* returns is what it was when the entry point was entered.
C2_NprocRestored == Returned => rlimit = hist.entryRlimit

\* The pipeline has returned to its entry point.
AfterPipeline == pc \in {"check_done", "validate_done", "list_done"}

\* C3: when sudoers_lookup returns VALIDATE_ERROR the pipeline stops there
\* with -1: no environment rebuild, no authentication, no later step, and
\* sudoers_check_cmnd stores no decision record.
C3_LookupError ==
    (Current /\ "VALIDATE_ERROR" \in hist.validated) =>
        /\ hist.stop = "lookup"
        /\ ~Did("rebuild_env")
        /\ ~Did("check_user")
        /\ ~Did("allow")
        /\ pc # "check_user"
        /\ (AfterPipeline => loc.ret = -1)
        /\ (Returned => result.ret = -1 /\ result.stored = NoRecord)

C3_Witness ==
    /\ Returned
    /\ result.fn = "check"
    /\ hist.validated = {"VALIDATE_SUCCESS", "VALIDATE_ERROR"}
    /\ result.ret = -1

\* The request got as far as the deferred id checks (step 4).
ReachedIdChecks ==
    Did("lookup") /\ hist.stop \notin {"lookup", "source", "runas_cmnd"}

\* An unknown target id that the defaults do not allow.
UnknownIdRefused ==
    /\ unknown_runas_uid \/ (runas_ctx.gr # NULL /\ unknown_runas_gid)
    /\ ~def.runas_allow_unknown_id

C5_DotNeverAllowed ==
    (Current /\ cmnd_status = NOT_FOUND_DOT) =>
        /\ pc # "check_allow"
        /\ (AfterPipeline => loc.ret # 1)
        /\ (Returned => result.ret # 1)

\* A matched rule for a command found in the current directory: denied.
C5_Witness ==
    /\ Returned
    /\ result.fn = "check"
    /\ cmnd_status = NOT_FOUND_DOT
    /\ hist.validated = {"VALIDATE_SUCCESS"}
    /\ hist.stop = "dot"
    /\ result.ret = 0

\* C6: the decision record sudoers_check_cmnd stores for a deny holds none
\* of the allow-side outputs: no I/O-log path, the umask ACCESSPERMS, the
\* argument vector without the login-shell reshape, no env file and no
\* user-supplied variable in the environment; and the request did not set
\* the saved command or the saved argv.
C6_DenyHasNoAllowOutputs ==
    (Returned /\ result.fn = "check" /\ result.stored.ret = 0) =>
        /\ result.stored.iolog_path = NULL
        /\ result.stored.umask = ACCESSPERMS
        /\ result.stored.argv = hist.argv
        /\ result.stored.env
              \cap {"env_file", "restricted_env_file", "env_vars"} = {}
        /\ user_ctx.cmnd_saved = hist.saved.cmnd
        /\ saved_argv = hist.saved.argv

\* A denied login-shell request: argv[0] is still the shell's path.
C6_Witness ==
    /\ Returned
    /\ result.fn = "check"
    /\ result.stored.ret = 0
    /\ ISSET(sudo_mode, {"MODE_LOGIN_SHELL"})
    /\ Did("check_user")
    /\ result.stored.argv = <<PwShell>>

\* C7: with uid 0 and root_sudo off, once the command has been resolved
\* without NOT_FOUND_ERROR the pipeline returns false at the root gate: no
\* rule lookup, no authentication, no environment rebuild.
C7_RootGate ==
    (Current /\ Did("set_cmnd") /\ hist.status # NOT_FOUND_ERROR
       /\ user_ctx.uid = 0 /\ ~def.root_sudo) =>
        /\ hist.stop = "root_sudo"
        /\ ~Did("lookup")
        /\ ~Did("rebuild_env")
        /\ ~Did("check_user")
        /\ pc \notin {"lookup", "check_user", "check_allow"}
        /\ (AfterPipeline => loc.ret = 0)
        /\ (Returned => result.ret \in {0, -1})
        /\ (Returned /\ result.fn = "check" /\ result.ret = -1 =>
                hist.rewind = "failed" \/ result.stored = NoRecord)

C7_Witness ==
    /\ Returned
    /\ result.fn = "check"
    /\ user_ctx.uid = 0
    /\ hist.stop = "root_sudo"
    /\ hist.status = FOUND
    /\ result.ret = 0

\* C8: every search of a set_cmnd_path call uses secure_path when it is set
\* and the user is not exempt, and the user's PATH otherwise.
C8_SecurePath ==
    Current =>
        \A i \in DOMAIN hist.searches :
            hist.searches[i].path =
                IF def.secure_path # NULL /\ ~hist.exempt
                THEN def.secure_path ELSE UserPath

\* Both searches ran, on secure_path.
C8_Witness ==
    /\ Current
    /\ Len(hist.searches) = 2
    /\ def.secure_path # NULL
    /\ hist.searches[1].path = def.secure_path
    /\ hist.searches[2].path = def.secure_path

\* C9: every function pops exactly the frames it pushed, and none pops more
\* often than it pushed (a pop that fails leaves its frame behind).
C9_PushesMatched ==
    hist.gate.func # "none" =>
        /\ hist.gate.popped <= hist.gate.pushed
        /\ (~hist.gate.failed => hist.gate.popped = hist.gate.pushed)

\* C10, as stated: when check_user is invoked every push since the entry
\* push of PERM_INITIAL has been popped, and INITIAL is restored before the
\* entry point returns.
C10_InitialRestored ==
    /\ (pc = "check_user" => permStack = Append(hist.entryStack, PERM_INITIAL))
    /\ (Returned /\ hist.rewind # "none" =>
            Identity(permStack) = PERM_INITIAL)

\* C10, amended: when check_user is invoked every push since the entry push
\* of PERM_INITIAL has been popped, so the password is read as INITIAL; and
\* before the entry point returns rewind_perms has run: INITIAL is restored
\* when it succeeded, and the entry point returns -1 when it failed.
C10_AuthAsInitial ==
    /\ (pc = "check_user" =>
            /\ permStack = Append(hist.entryStack, PERM_INITIAL)
            /\ Identity(permStack) = PERM_INITIAL)
    /\ (Returned /\ Did("check_user") =>
            /\ hist.rewind # "none"
            /\ (hist.rewind = "ok" => permStack = <<>>)
            /\ (hist.rewind = "failed" => result.ret = -1))

\* check_user is about to run after both searches of set_cmnd_path.
C10_Witness ==
    /\ pc = "check_user"
    /\ Len(hist.searches) = 2
    /\ hist.gate.popped = 2
    /\ permStack = Append(hist.entryStack, PERM_INITIAL)

\* sudoers_init has returned and nothing was called since.
Initialised == pc = "idle" /\ result.fn = "init"

\* C11: sudoers_init never returns true when no source opened and parsed
\* during the call, also when it follows the cleanup of a successful one.
C11_NoSourceIsError ==
    (Initialised /\ hist.sources = 0) => result.ret # 1

\* An implied shell without shell_noargs, in a request whose steps 1 to 4
\* passed.
ImpliedShellRefused ==
    /\ Did("lookup")
    /\ hist.stop \notin {"lookup", "source", "runas_cmnd", "unknown_uid",
                         "unknown_gid"}
    /\ ISSET(sudo_mode, {"MODE_IMPLIED_SHELL"})
    /\ ~def.shell_noargs

\* C12, as stated: such a request makes the entry point return -2, without
\* the requiretty check, the environment rebuild or the authentication.
C12_UsageReturned ==
    (Returned /\ ImpliedShellRefused) =>
        /\ result.ret = -2
        /\ hist.stop = "usage"
        /\ ~Did("rebuild_env")
        /\ ~Did("check_user")

\* C12, amended: the pipeline stops at the usage check with -2, before the
\* requiretty check, the environment rebuild and the authentication; the
\* entry point returns that -2 unless its teardown fails (the store of the
\* result or rewind_perms), and then it returns -1.
C12_UsageOrTeardownError ==
    (Current /\ ImpliedShellRefused) =>
        /\ hist.stop = "usage"
        /\ ~Did("rebuild_env")
        /\ ~Did("check_user")
        /\ pc \notin {"check_user", "check_allow"}
        /\ (AfterPipeline => loc.ret = -2)
        /\ (Returned => result.ret \in {-2, -1})
        /\ (Returned /\ result.ret = -1 =>
                \/ hist.rewind = "failed"
                \/ result.fn = "check" /\ result.stored = NoRecord)

\* sudoers_check_cmnd returned -2 and stored it, with requiretty set.
C12_Witness ==
    /\ Returned
    /\ result.fn = "check"
    /\ hist.stop = "usage"
    /\ def.requiretty
    /\ result.ret = -2
    /\ result.stored.ret = -2

\* sudoers_check_cmnd is entered again, with a command, after a check that
\* ran in MODE_RUN with intercept on.
InterceptedReentry ==
    /\ pc = "idle"
    /\ need_reinit
    /\ ISSET(sudo_mode, {"MODE_RUN"})
    /\ def.intercept
    /\ requests' = requests + 1
    /\ pc' = "check_setup" \/ (pc' = "idle" /\ result'.fn = "check")
    /\ hist'.trace # <<>>

\* C13: such a re-entry marks the mode MODE_POLICY_INTERCEPTED, masks it to
\* MODE_INTERCEPT_MASK and re-initialises the defaults under that mode,
\* before RLIMIT_NPROC is raised, before the first push of the privilege
\* gate and before the pipeline runs.
C13_InterceptedReentry ==
    [][ InterceptedReentry =>
          /\ sudo_mode' = (sudo_mode \cup {"MODE_POLICY_INTERCEPTED"})
                             \cap MODE_INTERCEPT_MASK
          /\ hist'.trace[1] = "reinit_defaults"
          /\ permStack' = permStack
          /\ hist'.gate = NoGateUse
          /\ \/ /\ pc' = "idle"
                /\ result'.ret = -1
                /\ hist'.trace = <<"reinit_defaults">>
                /\ rlimit' = rlimit
             \/ /\ pc' = "check_setup"
                /\ hist'.trace = <<"reinit_defaults", "unlimit_nproc">>
                /\ def'.admin_flag = NULL
                /\ def' = sudoers_reinit_defaults(def, snl, sudo_mode', "none").def
      ]_vars

\* A second check was entered after an intercepted one: -E was dropped from
\* the mode and the defaults were re-initialised before the nproc raise.
C13_Witness ==
    /\ pc = "check_setup"
    /\ requests = 2
    /\ "MODE_PRESERVE_ENV" \in InfoMode
    /\ sudo_mode = {"MODE_RUN", "MODE_POLICY_INTERCEPTED"}
    /\ hist.trace = <<"reinit_defaults", "unlimit_nproc">>
    /\ def.intercept
    /\ permStack = hist.entryStack

\* sudoers_check_cmnd has just re-initialised the defaults, after a
\* sudoers_init that ran its defaults sequence to the end.
Reinitialised ==
    /\ pc = "check_setup"
    /\ hist.trace[1] = "reinit_defaults"
    /\ hist.initDone

\* C14: after sudoers_reinit_defaults the store is the one sudoers_init
\* produced from the same sources, whatever the previous request did to it;
\* only the admin flag differs, cleared in intercepted mode.
C14_ReinitRestoresStore ==
    Reinitialised =>
        def = IF "MODE_POLICY_INTERCEPTED" \in sudo_mode
              THEN [hist.initDef EXCEPT !.admin_flag = NULL]
              ELSE hist.initDef

\* The previous request left a store that differs from the one of
\* sudoers_init, which had applied Defaults of a source.
C14_Witness ==
    /\ Reinitialised
    /\ hist.dirty
    /\ snl # <<>>
    /\ hist.initDef # update_defaults(init_defaults, 0, "generic")
    /\ "MODE_POLICY_INTERCEPTED" \notin sudo_mode

\* A run-mode request with -E and without the setenv privilege, past the
\* rule lookup.
PreserveEnvRefused ==
    /\ Current
    /\ Did("lookup")
    /\ ISSET(sudo_mode, {"MODE_RUN"})
    /\ ISSET(sudo_mode, {"MODE_PRESERVE_ENV"})
    /\ ~def.setenv

\* C15: such a request is never allowed; when it passes every earlier check
\* the pipeline stops at the -E check with false, and its env_reset stays on.
C15_PreserveEnvDenied ==
    PreserveEnvRefused =>
        /\ def.env_reset
        /\ hist.stop \notin {"env_vars", "none"} \/ pc \in {"check_user"}
        /\ (hist.stop = "preserve_env" => ~Did("allow"))
        /\ (AfterPipeline /\ hist.stop = "preserve_env" => loc.ret = 0)
        /\ (AfterPipeline => loc.ret # 1)
        /\ (Returned => result.ret # 1)
        /\ (Returned /\ hist.stop = "preserve_env" => result.ret \in {0, -1})
        /\ (Returned /\ hist.stop = "preserve_env" /\ result.ret = -1 =>
                \/ hist.rewind = "failed"
                \/ result.fn = "check" /\ result.stored = NoRecord)

\* A matched and authenticated sudo -E request was denied at the -E check
\* and the denial was stored.
C15_Witness ==
    /\ Returned
    /\ PreserveEnvRefused
    /\ result.fn = "check"
    /\ hist.stop = "preserve_env"
    /\ Did("rebuild_env")
    /\ Did("check_user")
    /\ "VALIDATE_SUCCESS" \in hist.validated
    /\ result.ret = 0
    /\ result.stored.ret = 0

\* sudoers_check_cmnd allowed a login shell (sudo -i).
LoginShellAllowed ==
    /\ Returned
    /\ result.fn = "check"
    /\ result.ret = 1
    /\ ISSET(sudo_mode, {"MODE_LOGIN_SHELL"})
    /\ ~ISSET(sudo_mode, {"MODE_EDIT"})

\* C16: the stored argv[0] of an allowed login shell is '-' and the base
\* name of the target user's shell; for -bash followed by -c the stored
\* vector is -bash, --login and the original argv[1..], one longer than the
\* original; in every other case argv[1..] is the original's.
C16_LoginShellArgv ==
    LoginShellAllowed =>
        LET orig == hist.argv
            out == result.stored.argv
            name == IF runas_ctx.shell = "/bin/bash" THEN "-bash" ELSE "-sh"
        IN /\ out[1] = name
           /\ IF name = "-bash" /\ Len(orig) > 1 /\ orig[2] = "-c"
              THEN /\ out = <<"-bash", "--login">> \o Tail(orig)
                   /\ Len(out) = Len(orig) + 1
              ELSE out = <<name>> \o Tail(orig)

\* An allowed sudo -i with a command: --login was put before -c.
C16_Witness ==
    /\ LoginShellAllowed
    /\ hist.argv = <<"/bin/bash", "-c", "id">>
    /\ result.stored.argv = <<"-bash", "--login", "-c", "id">>

\* The call hist describes has switched identity.
Switched ==
    \/ permStack # hist.entryStack
    \/ hist.gate.pushed > 0
    \/ Did("set_perms")

\* unlimit_nproc was the first thing the call did that touches the process
\* (only the re-initialisation of the defaults may precede it).
RaisedFirst ==
    /\ hist.unlimits = 1
    /\ hist.trace # <<>>
    /\ \/ hist.trace[1] = "unlimit_nproc"
       \/ /\ Len(hist.trace) > 1
          /\ hist.trace[1] = "reinit_defaults"
          /\ hist.trace[2] = "unlimit_nproc"

\* C17, as stated: every identity switch, those of sudoers_init and
\* init_vars included, comes after a raise of RLIMIT_NPROC in the same call.
C17_RaiseBeforeEverySwitch ==
    (fn # "none" /\ Switched) => RaisedFirst

\* C17, amended: every identity switch of check, validate and list comes
\* after unlimit_nproc in the same call, and restore_nproc is called once at
\* its teardown; sudoers_init (with init_vars and open_file) switches
\* identity without any raise.
C17_RaiseBeforeRequestSwitches ==
    /\ (Current /\ Switched => RaisedFirst)
    /\ (fn \in Requests /\ hist.unlimits = 1 /\ hist.infOk =>
            rlimit = [cur |-> RLIM_INFINITY, max |-> RLIM_INFINITY])
    /\ (fn \in Requests => hist.restores = 0)
    /\ (Returned => hist.restores = hist.unlimits)
    /\ (Returned /\ hist.unlimits = 1 =>
            hist.trace[Len(hist.trace)] = "restore_nproc")
    /\ (fn = "init" \/ Initialised =>
            /\ hist.unlimits = 0
            /\ hist.restores = 0
            /\ rlimit = hist.entryRlimit)

\* validate has switched identity under a raised limit; the limit it was
\* entered with is not the raised one.
C17_Witness ==
    /\ fn = "validate"
    /\ Switched
    /\ Identity(permStack) # Identity(hist.entryStack)
    /\ hist.unlimits = 1
    /\ rlimit = [cur |-> RLIM_INFINITY, max |-> RLIM_INFINITY]
    /\ hist.entryRlimit # rlimit

\* set_cmnd_path ran in the request hist describes.
PathSearched == Current /\ hist.pathRet # NULL

\* The second search is the retry of a first one that returned NOT_FOUND.
SecondIffNotFound ==
    /\ Len(hist.searches) <= 2
    /\ (Len(hist.searches) = 2 =>
            /\ hist.searches[1].ret = NOT_FOUND
            /\ hist.searches[2].perm = PERM_USER)

\* The result: NOT_FOUND_ERROR when a push or a pop failed, the result of
\* the last search when the call returned anything else.
LastSearchOrError ==
    /\ (hist.gate.failed \/ hist.searches = <<>> =>
            hist.pathRet = NOT_FOUND_ERROR)
    /\ (hist.pathRet # NOT_FOUND_ERROR =>
            hist.pathRet = hist.searches[Len(hist.searches)].ret)

C19_UnpivotOnce ==
    (PathSearched /\ hist.pivots = 1) => hist.unpivots = 1

\* set_cmnd_path pivoted, a pop of the gate failed, and it unpivoted at the
\* error label.
C19_Witness ==
    /\ PathSearched
    /\ hist.pivots = 1
    /\ hist.gate.failed
    /\ hist.pathRet = NOT_FOUND_ERROR
    /\ hist.unpivots = 1

\* The source loop of sudoers_init is running or has run to its end.
InSourceLoop == pc = "init_sources" \/ (pc = "init_done" /\ ~loc.skip)

\* C20: a source whose open or parse fails leaves the list and the loop goes
\* on with the next one: at every turn the list is the sources that opened
\* and parsed so far followed by those still to do, so after the loop it
\* holds exactly the good ones, in the order they had.
C20_OnlyGoodSourcesKept ==
    /\ (InSourceLoop =>
            /\ snl = hist.good \o loc.todo
            /\ hist.tried + Len(loc.todo) = Len(Sources)
            /\ loc.sources = Len(hist.good)
            /\ \A i, j \in DOMAIN snl : i < j => snl[i] < snl[j])
    /\ (pc = "init_done" /\ ~loc.skip =>
            /\ loc.todo = <<>>
            /\ hist.tried = Len(Sources)
            /\ snl = hist.good)
    /\ (Initialised /\ hist.initDone => snl = hist.good)

\* The first source was dropped, the second one was kept and sudoers_init
\* succeeded.
C20_Witness ==
    /\ Initialised
    /\ hist.initDone
    /\ hist.tried = 2
    /\ snl = <<2>>
    /\ result.ret = 1

\* The store built from the front-end's defaults and the Defaults of the
\* sources of list whose getdefs works.
StoreWithout(list) ==
    ApplySources(update_defaults(init_defaults, 0, "generic"),
                 SelectSeq(list, LAMBDA n : ~Broken(n, "nogetdefs")),
                 "generic")

\* C21: a source whose getdefs fails stays in the list and is counted, and
\* its Defaults are not in the store, in sudoers_init and after a
\* sudoers_reinit_defaults that returned true.
C21_GetdefsFailureKept ==
    /\ (InSourceLoop \/ (Initialised /\ hist.initDone) =>
            /\ \A i \in DOMAIN hist.good :
                   \E j \in DOMAIN snl : snl[j] = hist.good[i]
            /\ def = StoreWithout(hist.good))
    /\ (InSourceLoop => loc.sources = Len(hist.good))
    /\ (Initialised /\ hist.initDone => hist.sources = Len(hist.good))
    /\ (Reinitialised =>
            def = IF "MODE_POLICY_INTERCEPTED" \in sudo_mode
                  THEN [StoreWithout(snl) EXCEPT !.admin_flag = NULL]
                  ELSE StoreWithout(snl))

\* sudoers_init succeeded with only a source whose Defaults cannot be read:
\* it is in the list and its requiretty is not in the store.
C21_Witness ==
    /\ Initialised
    /\ hist.initDone
    /\ result.ret = 1
    /\ Broken(1, "nogetdefs")
    /\ Choice(1, "generic", "requiretty") \in world
    /\ hist.good = <<1, 2>>
    /\ snl = <<1, 2>>
    /\ ~def.requiretty

\* create_admin_success_flag was invoked in the request hist describes, did
\* not fail, and a flag file is configured.
AdminFlagCreated ==
    /\ Current
    /\ Did("admin_flag")
    /\ hist.stop # "admin_flag"
    /\ def.admin_flag # NULL

\* C22: the admin flag file is created only after every denial check of
\* the pipeline has passed, so never in a request whose result is deny.
C22_AdminFlagLast ==
    AdminFlagCreated =>
        /\ hist.stop \notin {"dot", "not_found", "timeout", "preserve_env",
                             "env_vars"}
        /\ (AfterPipeline => loc.ret # 0)
        /\ (Returned => result.ret # 0)

\* C23: whenever the target credential is a fake entry made for an id the
\* system does not know, the unknown-uid flag is set; the same for the
\* target group and the unknown-gid flag.
C23_FakeEntryIsFlagged ==
    /\ (runas_ctx.pw = "fake" => unknown_runas_uid)
    /\ (runas_ctx.gr = "fake" => unknown_runas_gid)

\* A request passed steps 1 to 4 and the implied-shell check with requiretty
\* on, so tty_present was called.
TtyChecked == Current /\ Did("lookup") /\ hist.tty.checked

\* The front-end passed the terminal's process group or its path.
TtyKnown == user_ctx.tcpgid # 0 \/ user_ctx.ttypath # NULL

\* C24: with requiretty on, a tty is present when tcpgid is non-zero or
\* ttypath is set, and then /dev/tty is not opened; otherwise it is present
\* exactly when opening /dev/tty succeeds.  Without a tty the pipeline stops
\* at the tty check with false, before the environment rebuild and the
\* authentication.
C24_NoTtyDenied ==
    TtyChecked =>
        /\ (TtyKnown => hist.tty.present /\ ~hist.tty.opened)
        /\ (~TtyKnown => hist.tty.opened
                          /\ hist.tty.present = hist.tty.openOk)
        /\ (~hist.tty.present =>
                /\ hist.stop = "notty"
                /\ ~Did("rebuild_env")
                /\ ~Did("check_user")
                /\ pc \notin {"check_user", "check_allow"}
                /\ (AfterPipeline => loc.ret = 0)
                /\ (Returned => result.ret \in {0, -1})
                /\ (Returned /\ result.ret = -1 =>
                        \/ hist.rewind = "failed"
                        \/ result.fn = "check" /\ result.stored = NoRecord))

\* sudoers_check_cmnd denied a request because /dev/tty could not be opened.
C24_Witness ==
    /\ Returned
    /\ TtyChecked
    /\ result.fn = "check"
    /\ ~TtyKnown
    /\ ~hist.tty.present
    /\ result.ret = 0
    /\ result.stored.ret = 0

\* The pipeline stopped at step with ret, and the entry point returned it
\* unless its teardown failed.
StoppedWith(step, ret) ==
    /\ hist.stop = step
    /\ pc # "check_allow"
    /\ (AfterPipeline => loc.ret = ret)
    /\ (Returned => result.ret \in {ret, -1})
    /\ (Returned /\ result.ret # ret =>
            \/ hist.rewind = "failed"
            \/ result.fn = "check" /\ result.stored = NoRecord)

\* C25: the chroot check runs exactly when the authentication succeeded and
\* the cwd check exactly when the chroot check allowed; for each, a refusal
\* stops the pipeline with false, an error with -1, and an allow lets it go
\* on to the next step.
C25_OverrideChecks ==
    (Current /\ Did("check_user")) =>
        /\ (hist.chroot # {}) = (hist.auth = {1})
        /\ (hist.cwd # {}) = (hist.chroot = {1})
        /\ (hist.chroot = {0} => StoppedWith("runchroot", 0))
        /\ (hist.chroot = {-1} => StoppedWith("runchroot", -1))
        /\ (hist.cwd = {0} => StoppedWith("runcwd", 0))
        /\ (hist.cwd = {-1} => StoppedWith("runcwd", -1))
        /\ (hist.cwd = {1} =>
                hist.stop \notin {"check_user", "log_denial", "rejected",
                                   "runchroot", "runcwd"})

\* sudoers_check_cmnd denied a request whose chroot check allowed and whose
\* cwd check refused, and stored the denial.
C25_Witness ==
    /\ Returned
    /\ result.fn = "check"
    /\ hist.auth = {1}
    /\ hist.chroot = {1}
    /\ hist.cwd = {0}
    /\ result.ret = 0
    /\ result.stored.ret = 0

\* How many times the step e was taken in the request hist describes.
Times(e) == Cardinality({ i \in DOMAIN hist.trace : hist.trace[i] = e })

\* C26: the pipeline calls log_denial only for an authentication that was
\* rejected, not for one that succeeded or failed with an error, and at most
\* once in a request; when log_denial fails the pipeline returns -1, and
\* otherwise false.
C26_LogDenial ==
    Current =>
        /\ Times("log_denial") <= 1
        /\ (Did("log_denial") = (hist.denial # {}))
        /\ (Did("log_denial") => Did("check_user") /\ hist.auth = {0})
        /\ (hist.denial = {FALSE} => StoppedWith("log_denial", -1))
        /\ (hist.denial = {TRUE} => StoppedWith("rejected", 0))

\* A request of an unmatched user was rejected by the authentication, the
\* logging of the denial failed and sudoers_check_cmnd returned -1.
C26_Witness ==
    /\ Returned
    /\ result.fn = "check"
    /\ hist.auth = {0}
    /\ Did("log_denial")
    /\ hist.denial = {FALSE}
    /\ result.ret = -1

\* Where the step e was first taken in the request hist describes.
At(e) == CHOOSE i \in DOMAIN hist.trace : hist.trace[i] = e

\* The conditions under which user_ctx.pw is bound to the SUDO_USER user.
RebindDue ==
    /\ ISSET(sudo_mode, {"MODE_RUN", "MODE_EDIT"})
    /\ user_ctx.uid = 0
    /\ prev_user \notin {NULL, "root"}
    /\ hist.rebind.resolves

\* C27: in a request that passed the chroot and cwd checks, user_ctx.pw is
\* bound to the SUDO_USER user exactly when the mode has RUN or EDIT, the
\* uid is 0, SUDO_USER names a user other than root and the name resolves;
\* that happens after the lookup, the authentication and the two checks,
\* with one sudo_pw_delref on the old entry; otherwise, and in every request
\* that stopped earlier, the entry is the one the request started with and
\* nothing is released.
C27_Rebinding ==
    (Current /\ Did("check_user")) =>
        /\ hist.rebind.reached = (hist.cwd = {1})
        /\ hist.rebind.bound = (hist.rebind.reached /\ RebindDue)
        /\ Did("rebind") = hist.rebind.bound
        /\ (hist.rebind.bound =>
                /\ user_ctx.pw = prev_user
                /\ At("lookup") < At("rebind")
                /\ At("check_user") < At("rebind")
                /\ At("runchroot") < At("rebind")
                /\ At("runcwd") < At("rebind")
                /\ hist.rebind.delref =
                      (IF hist.rebind.old # NULL THEN <<hist.rebind.old>>
                       ELSE <<>>))
        /\ (hist.rebind.reached /\ ~hist.rebind.bound =>
                /\ user_ctx.pw = hist.rebind.old
                /\ hist.rebind.delref = <<>>)

\* Root ran a command with SUDO_USER=alice: the request was allowed with the
\* entry of alice bound and the invoker's entry released.
C27_Witness ==
    /\ Returned
    /\ result.fn = "check"
    /\ result.ret = 1
    /\ hist.rebind.bound
    /\ hist.rebind.old = "invoker"
    /\ hist.rebind.delref = <<"invoker">>
    /\ user_ctx.pw = "alice"

\* The request got as far as the closefrom gate.
AtClosefromGate == Current /\ Did("set_cmnd") /\ hist.closefrom.reached

\* The user asked for a closefrom value other than the configured one.
ClosefromOverridden ==
    /\ user_ctx.closefrom >= 0
    /\ user_ctx.closefrom # hist.closefrom.configured

\* C28: a requested closefrom value >= 0 that differs from the configured
\* one stops the pipeline with false before the rule lookup when
\* closefrom_override is off, and replaces the configured value when it is
\* on; without a request, or with the configured value requested, the
\* configured value stays.
C28_ClosefromGate ==
    AtClosefromGate =>
        /\ (ClosefromOverridden /\ ~def.closefrom_override =>
                /\ StoppedWith("closefrom", 0)
                /\ ~Did("lookup")
                /\ def.closefrom = hist.closefrom.configured)
        /\ (ClosefromOverridden /\ def.closefrom_override =>
                /\ def.closefrom = user_ctx.closefrom
                /\ hist.stop # "closefrom")
        /\ (~ClosefromOverridden =>
                /\ def.closefrom = hist.closefrom.configured
                /\ hist.stop # "closefrom")

\* With closefrom_override on, a request for closefrom 5 was allowed and 5
\* replaced the configured 3.
C28_Witness ==
    /\ Returned
    /\ AtClosefromGate
    /\ result.fn = "check"
    /\ result.ret = 1
    /\ def.closefrom_override
    /\ hist.closefrom.configured = 3
    /\ user_ctx.closefrom = 5
    /\ def.closefrom = 5

\* sudoers_check_cmnd allowed the command and stored the decision.
Allowed == Returned /\ result.fn = "check" /\ result.ret = 1

\* Bit i of the mode m.
Bit(m, i) == (m \div 2^i) % 2

\* C29: the umask handed back with an allow is ACCESSPERMS when def_umask is
\* ACCESSPERMS, def_umask when umask_override is set, and otherwise has
\* exactly the bits set in def_umask or in the user's umask; in every case
\* each bit of def_umask is in it.
C29_Umask ==
    Allowed =>
        /\ result.stored.umask \in 0..ACCESSPERMS
        /\ (def.umask = ACCESSPERMS => result.stored.umask = ACCESSPERMS)
        /\ (def.umask # ACCESSPERMS /\ def.umask_override =>
                result.stored.umask = def.umask)
        /\ (def.umask # ACCESSPERMS /\ ~def.umask_override =>
                \A i \in 0..8 :
                    (Bit(result.stored.umask, i) = 1) =
                        (Bit(def.umask, i) = 1 \/ Bit(user_ctx.umask, i) = 1))
        /\ \A i \in 0..8 :
                Bit(def.umask, i) = 1 => Bit(result.stored.umask, i) = 1

\* An allow under the compiled-in umask 022 and without umask_override: the
\* stored umask has a bit of the user's umask that def_umask lacks.
C29_Witness ==
    /\ Allowed
    /\ def.umask # ACCESSPERMS
    /\ ~def.umask_override
    /\ result.stored.umask # def.umask
    /\ \E i \in 0..8 : /\ Bit(def.umask, i) = 0
                        /\ Bit(user_ctx.umask, i) = 1
                        /\ Bit(result.stored.umask, i) = 1

\* sudoers_check_cmnd made its copy of argv in this request.
ArgvCopied == Current /\ hist.buf.slots > 0

\* C30: the copy of argv has argc + 2 slots; with or without the --login
\* insertion every index stored to is below argc + 2, the slots below
\* NewArgc hold the arguments, and NewArgv[NewArgc] is NULL.
C30_ArgvSlots ==
    ArgvCopied =>
        /\ hist.buf.given >= 1
        /\ hist.buf.slots = hist.buf.given + 2
        /\ \A i \in hist.buf.written : i < hist.buf.given + 2
        /\ hist.buf.argc \in {hist.buf.given, hist.buf.given + 1}
        /\ hist.buf.argc < hist.buf.slots
        /\ hist.buf.mem[hist.buf.argc] = NULL
        /\ \A i \in 0..(hist.buf.argc - 1) :
                hist.buf.mem[i] \notin {NULL, "unset"}
        /\ (~ISSET(sudo_mode, {"MODE_EDIT"}) /\ pc # "check_allow" =>
                NewArgv.vec = [i \in 1..hist.buf.argc |-> hist.buf.mem[i - 1]])

\* A login shell with a command was allowed: --login was inserted, and the
\* terminator went to the last of the argc + 2 slots.
C30_Witness ==
    /\ Allowed
    /\ ArgvCopied
    /\ hist.buf.argc = hist.buf.given + 1
    /\ hist.buf.mem[1] = "--login"
    /\ (hist.buf.given + 1) \in hist.buf.written
    /\ hist.buf.mem[hist.buf.given + 1] = NULL

\* The pipeline allowed the request, I/O logging was on with both templates
\* set, and the expansion of the log path failed.
IologExpansionFailed == Current /\ Did("allow") /\ hist.iolog = {FALSE}

\* C31: after such a failure sudoers_check_cmnd leaves with -1 when
\* ignore_iolog_errors is off; when it is on the request goes on, each of the
\* seven log_* defaults is off and no I/O-log path is handed back.
C31_IologPathFailure ==
    IologExpansionFailed =>
        /\ (~def.ignore_iolog_errors => StoppedWith("iolog", -1))
        /\ (def.ignore_iolog_errors =>
                /\ hist.stop # "iolog"
                /\ def.log_io \cap LogDefaults = {}
                /\ loc.iolog_path = NULL
                /\ (AfterPipeline /\ hist.stop = "none" => loc.ret = 1)
                /\ (Returned /\ hist.stop = "none" => result.ret \in {1, -1})
                /\ (Returned /\ result.ret = 1 =>
                        result.stored.iolog_path = NULL))

\* With ignore_iolog_errors on, a request whose log path could not be
\* expanded was allowed and stored without a path.
C31_Witness ==
    /\ Returned
    /\ IologExpansionFailed
    /\ def.ignore_iolog_errors
    /\ result.fn = "check"
    /\ result.ret = 1
    /\ result.stored.ret = 1
    /\ result.stored.iolog_path = NULL
    /\ def.log_io = {}

\* set_cmnd ran in this request and did not fail.
SetCmndDone == Current /\ Did("set_cmnd") /\ hist.status # NOT_FOUND_ERROR

\* The command set_cmnd left is sudoedit by its basename.
CmndIsSudoedit == sudo_basename(user_ctx.cmnd) = "sudoedit"

\* C32: when set_cmnd was entered with MODE_RUN and the command's basename
\* is sudoedit, the mode it leaves is the one it was entered with, less
\* MODE_RUN and with MODE_EDIT, and the command is the literal sudoedit; in
\* every other case the mode is as it was; so MODE_RUN never goes with a
\* command whose basename is sudoedit.
C32_SudoeditMode ==
    SetCmndDone =>
        /\ ("MODE_RUN" \in hist.modeIn /\ CmndIsSudoedit =>
                /\ sudo_mode \ {"MODE_RUN", "MODE_EDIT"}
                      = hist.modeIn \ {"MODE_RUN", "MODE_EDIT"}
                /\ "MODE_EDIT" \in sudo_mode
                /\ user_ctx.cmnd = "sudoedit")
        /\ (~("MODE_RUN" \in hist.modeIn /\ CmndIsSudoedit) =>
                sudo_mode = hist.modeIn)
        /\ ~("MODE_RUN" \in sudo_mode /\ CmndIsSudoedit)

\* "sudo sudoedit f" left set_cmnd in edit mode.
C32_Witness ==
    /\ SetCmndDone
    /\ "MODE_RUN" \in hist.modeIn
    /\ "MODE_RUN" \notin sudo_mode
    /\ "MODE_EDIT" \in sudo_mode
    /\ user_ctx.cmnd = "sudoedit"
    /\ hist.argv = <<"sudoedit", "f">>

\* sudoers_reinit_defaults ran at the entry of this request.
ReinitRan == Current /\ hist.hook.ran

\* C33: sudoers_reinit_defaults leaves the parse-error hook as it found it,
\* on a failure return and on success; the hook is off only at the getdefs
\* and update_defaults of the rule sources, which a failure return never
\* reaches.
C33_HookRestored ==
    ReinitRan =>
        /\ sudoers_error_hook = hist.hook.entry
        /\ \A i \in DOMAIN hist.hook.before :
                hist.hook.before[i] = hist.hook.entry
        /\ (hist.trace = <<"reinit_defaults">> => hist.hook.during = <<>>)
        /\ (hist.trace # <<"reinit_defaults">> =>
                /\ Len(hist.hook.during) = Len(snl)
                /\ \A i \in DOMAIN hist.hook.during :
                        hist.hook.during[i] = NULL)

\* A second sudoers_check_cmnd re-applied the defaults of a source with the
\* hook off and returned with the logger hooked up again.
C33_Witness ==
    /\ Returned
    /\ ReinitRan
    /\ result.fn = "check"
    /\ hist.hook.entry = Logger
    /\ Len(hist.hook.during) >= 1
    /\ sudoers_error_hook = Logger

\* A step in which sudoers_init is called with the source list set.
InitCalledAgain ==
    /\ pc = "idle"
    /\ snl # NULL
    /\ pc' = "idle"
    /\ result'.fn = "init"

\* C34: a sudoers_init call made with the source list set returns what the
\* call that set the list returned, and changes nothing in the plugin.
C34_InitOnce ==
    [][InitCalledAgain =>
         /\ result'.ret = hist.firstRet
         /\ UNCHANGED <<world, pc, fn, sudo_mode, def, ctxVars, cmnd_status,
                        snl, initRet, need_reinit, permStack, nprocVars,
                        argvVars, loc, hist, faults, requests, inits,
                        sudoers_error_hook>>]_vars

\* sudoers_check_cmnd returned after its teardown.
CheckTornDown == Returned /\ result.fn = "check" /\ Did("rewind_perms")

\* sudoers_check_cmnd returned before its teardown: argc == 0, or the
\* re-initialisation of the defaults failed.
CheckLeftEarly == Returned /\ result.fn = "check" /\ ~Did("rewind_perms")

\* C35: at its teardown sudoers_check_cmnd calls sudoers_policy_store_result
\* exactly when the pending result is not -1 (an allow, a deny, the usage
\* error -2); a record handed back holds that result; with -1 pending, and
\* on the early returns, nothing is stored.
C35_StoreUnlessError ==
    /\ (CheckTornDown =>
            /\ hist.store.called = (hist.store.pending # -1)
            /\ hist.store.pending \in {1, 0, -2, -1}
            /\ (hist.store.called /\ hist.store.ok =>
                    result.stored.ret = hist.store.pending)
            /\ (~(hist.store.called /\ hist.store.ok) =>
                    result.stored = NoRecord))
    /\ (CheckLeftEarly =>
            /\ ~hist.store.called
            /\ result.stored = NoRecord
            /\ result.ret = -1)

\* A usage error was stored at the teardown.
C35_Witness ==
    /\ CheckTornDown
    /\ hist.store.pending = -2
    /\ hist.store.called
    /\ hist.store.ok
    /\ result.stored.ret = -2

\* C36: a request entry point returns true only when rewind_perms succeeded
\* at its teardown, and sudoers_check_cmnd only when the store of the
\* decision record succeeded as well; when either failed the entry point
\* returns -1.
C36_TrueNeedsTeardown ==
    Returned =>
        /\ (result.ret = 1 =>
                /\ Did("rewind_perms")
                /\ hist.rewind = "ok"
                /\ (result.fn = "check" =>
                        /\ hist.store.called
                        /\ hist.store.ok
                        /\ result.stored.ret = 1))
        /\ (hist.rewind = "failed" => result.ret = -1)
        /\ (hist.store.called /\ ~hist.store.ok =>
                result.ret = -1 /\ result.stored = NoRecord)

\* The pipeline allowed the command, the store of the record failed and
\* sudoers_check_cmnd returned -1 although rewind_perms succeeded.
C36_Witness ==
    /\ Returned
    /\ result.fn = "check"
    /\ hist.store.pending = 1
    /\ hist.store.called
    /\ ~hist.store.ok
    /\ hist.rewind = "ok"
    /\ result.ret = -1

\* A step that enters sudoers_check_cmnd, and one that enters
\* sudoers_validate_user or sudoers_list.
CheckEntered ==
    /\ pc = "idle"
    /\ requests' = requests + 1
    /\ fn' = "check" \/ (pc' = "idle" /\ result'.fn = "check")

OtherEntered ==
    /\ pc = "idle"
    /\ requests' = requests + 1
    /\ ~CheckEntered

\* C37: with hist.checks the number of sudoers_check_cmnd calls with
\* argc > 0 since the last sudoers_cleanup: such a call re-initialises the
\* defaults exactly when it is not the first, whatever the mode, and leaves
\* need_reinit set; a call with argc == 0, sudoers_validate_user and
\* sudoers_list leave the defaults and need_reinit alone; sudoers_cleanup
\* clears need_reinit.
C37_ReinitFromSecondCheck ==
    [][/\ (CheckEntered /\ hist'.checks = hist.checks + 1 =>
             /\ hist'.hook.ran = (hist.checks >= 1)
             /\ (~hist'.hook.ran => def' = def)
             /\ need_reinit')
       /\ (CheckEntered /\ hist'.checks = hist.checks =>
             /\ ~hist'.hook.ran
             /\ def' = def
             /\ need_reinit' = need_reinit)
       /\ (OtherEntered =>
             /\ ~hist'.hook.ran
             /\ def' = def
             /\ need_reinit' = need_reinit)
       /\ (pc = "idle" /\ result'.fn = "cleanup" /\ result' # result =>
             ~need_reinit')
       /\ (need_reinit' = (hist'.checks >= 1))]_vars

\* A second command was checked after a first that was not intercepted, and
\* the defaults were re-initialised for it.
C37_Witness ==
    /\ hist.checks = 2
    /\ hist.hook.ran
    /\ ~def.intercept
    /\ "MODE_POLICY_INTERCEPTED" \notin sudo_mode
    /\ need_reinit
    /\ pc = "idle"
    /\ result.fn = "check"

\* A step inside a request, after its entry.
InRequest == fn \in {"check", "validate", "list"}

\* C38: inside a request user_ctx.pw is assigned only by the SUDO_USER
\* rebinding, which runs once, after the lookup and the authentication, so
\* both saw the entry the request started with; between requests only
\* sudoers_init and sudoers_cleanup assign it, so once a request has rebound
\* the entry, every later request before sudoers_cleanup starts with the
\* rebound entry and looks its rules up for that user.
C38_PwChangesOnce ==
    [][/\ (InRequest /\ user_ctx'.pw # user_ctx.pw =>
             /\ pc = "check_user"
             /\ ~hist.rebind.reached
             /\ hist'.rebind.bound
             /\ user_ctx'.pw = prev_user)
       /\ (pc = "idle" /\ requests' = requests + 1 =>
             user_ctx'.pw = user_ctx.pw)
       /\ hist'.lookupPw \subseteq {hist'.entryPw}
       /\ hist'.authPw \subseteq {hist'.entryPw}
       /\ (hist'.entryBound # NULL =>
             /\ hist'.entryPw = hist'.entryBound
             /\ hist'.lookupPw \subseteq {hist'.entryBound})
       /\ (hist'.boundPw # NULL /\ pc' = "idle" => user_ctx'.pw = hist'.boundPw)]_vars

\* A request whose rules were looked up for the user an earlier request had
\* bound from SUDO_USER.
C38_Witness ==
    /\ hist.entryBound = "alice"
    /\ hist.lookupPw = {"alice"}
    /\ hist.authPw = {"alice"}
    /\ requests = 2

\* C39: set_cmnd_path calls unpivot_root only after a pivot_root that
\* succeeded in the same call: it never unpivots more often than it
\* pivoted.
C39_UnpivotOnlyAfterPivot ==
    PathSearched => hist.unpivots <= hist.pivots

\* A step of sudoers_cleanup.
CleanupStep ==
    /\ pc = "idle"
    /\ result'.fn = "cleanup"
    /\ snl' = NULL
    /\ ~ready'

\* C40: the saved command and saved_argv are assigned only by a
\* sudoers_check_cmnd request that is allowed while nothing is saved yet,
\* they then keep their values until sudoers_cleanup, and the vector
\* saved_argv points to is never among the vectors the requests freed.
C40_SavedArgvKept ==
    [][/\ (saved_argv' # 0 => saved_argv' \notin hist'.freed)
       /\ ((saved_argv' # 0) = (user_ctx'.cmnd_saved # NULL))
       /\ (~CleanupStep /\ user_ctx.cmnd_saved # NULL =>
             /\ user_ctx'.cmnd_saved = user_ctx.cmnd_saved
             /\ saved_argv' = saved_argv)
       /\ (/\ ~CleanupStep
           /\ \/ saved_argv' # saved_argv
              \/ user_ctx'.cmnd_saved # user_ctx.cmnd_saved
           => /\ fn = "check"
              /\ pc = "check_allow"
              /\ loc'.ret = 1
              /\ user_ctx.cmnd_saved = NULL
              /\ saved_argv = 0
              /\ saved_argv' = NewArgv'.ptr
              /\ user_ctx'.cmnd_saved = runas_ctx'.cmnd)]_vars

\* A second, edit-mode request freed its own copy of argv and replaced
\* NewArgv with the editor's vector while the vector saved by the first
\* request stayed in place.
C40_Witness ==
    /\ requests = 2
    /\ fn = "check"
    /\ hist.saved.argv # 0
    /\ saved_argv = hist.saved.argv
    /\ NewArgv.ptr = MaxRequests + 2
    /\ 2 \in hist.freed
    /\ saved_argv \notin hist.freed

====
